---- MODULE Spec2Model ----
(***************************************************************************)
(* Model of the top-down operator-precedence (Pratt) parser of             *)
(* src/pratt-rd-parser-py.py: the symbol registry and its registration     *)
(* functions, the lazy token adapter (a generator), and the engine         *)
(* expression(rbp) with every prefix (nud) and infix (led) behaviour the   *)
(* grammar installs.  The recursive engine is run as an explicit call      *)
(* stack; one action is one step of the function on top of the stack.      *)
(*                                                                         *)
(* Python objects keep their identity: a symbol class is an index into     *)
(* registry.classes, a token instance is an index into heap (the i-th      *)
(* instance the adapter created), and an AST is the heap reached from the  *)
(* returned index through the first/second/third slots.                    *)
(***************************************************************************)
EXTENDS Integers, Sequences, FiniteSets, TLC

VARIABLES
    registry,   \* symbol_table and the symbol classes it refers to
    passed,     \* history: id -> set of binding powers passed to symbol()
    program,    \* raw lexical tokens of the argument of parse()
    gen,        \* the generator tokenize(program) bound to the global next
    token,      \* the global current token (heap index, 0 before any parse)
    heap,       \* the symbol instances created so far
    stack,      \* the call stack below parse(), innermost frame last
    outcome,    \* what parse() did: idle, running, returned, raised
    log,        \* history: the calls and token requests made so far
    suspended,  \* the thread that is not running: its program, stack, outcome
    calcs       \* the two CalcParser objects and the line last given to calc()

vars ==
    <<registry, passed, program, gen, token, heap, stack, outcome, log,
      suspended, calcs>>

max(a, b) == IF a >= b THEN a ELSE b

SetMax(S) == CHOOSE x \in S : \A y \in S : y <= x

(***************************************************************************)
(* Symbol registry                                                         *)
(***************************************************************************)

\* A behaviour slot of a class: which function is installed, and the
\* binding power its closure captured.
Beh(kind, bp) == [kind |-> kind, bp |-> bp]

\* symbol_base.nud / symbol_base.led: the inherited behaviours, which raise.
NoBeh == Beh("none", 0)

\* symbol_table = {} and no class created yet.
EmptyRegistry == [classes |-> <<>>, symbol_table |-> [x \in {} |-> 0]]

symbol_mutant_overwrite(reg, id, bp) ==
    IF id \in DOMAIN reg.symbol_table
    THEN [reg EXCEPT !.classes[reg.symbol_table[id]].lbp = bp]
    ELSE [classes |-> Append(reg.classes,
                        [id |-> id, lbp |-> bp, nud |-> NoBeh, led |-> NoBeh]),
          symbol_table |-> reg.symbol_table @@ (id :> Len(reg.classes) + 1)]

\* symbol(id, bp): look the class up, or create it; the registry afterwards.
\* The class returned by the call is classes[symbol_table[id]].
symbol(reg, id, bp) ==
    IF id \in DOMAIN reg.symbol_table
    THEN [reg EXCEPT !.classes[reg.symbol_table[id]].lbp = max(bp, @)]
    ELSE [classes |-> Append(reg.classes,
                        [id |-> id, lbp |-> bp, nud |-> NoBeh, led |-> NoBeh]),
          symbol_table |-> reg.symbol_table @@ (id :> Len(reg.classes) + 1)]

\* symbol(id, bp).nud = fn  and  symbol(id, bp).led = fn
set_nud(reg, id, bp, b) ==
    LET r == symbol(reg, id, bp)
    IN  [r EXCEPT !.classes[r.symbol_table[id]].nud = b]

set_led(reg, id, bp, b) ==
    LET r == symbol(reg, id, bp)
    IN  [r EXCEPT !.classes[r.symbol_table[id]].led = b]

infix_mutant_weaker_operand(reg, id, bp) ==
    set_led(reg, id, bp, Beh("infix", bp - 1))

infix(reg, id, bp) == set_led(reg, id, bp, Beh("infix", bp))

prefix(reg, id, bp) == set_nud(reg, id, 0, Beh("prefix", bp))

infix_r(reg, id, bp) == set_led(reg, id, bp, Beh("infix_r", bp))

constant(reg, id) == set_nud(reg, id, 0, Beh("constant", 0))

\* @method(symbol(id, bp)) def nud / def led: setattr(s, fn.__name__, fn)
method(reg, id, bp, slot, kind) ==
    IF slot = "nud" THEN set_nud(reg, id, bp, Beh(kind, 0))
                    ELSE set_led(reg, id, bp, Beh(kind, 0))

\* One registration statement of the module, applied to a registry.
Register(reg, c) ==
    CASE c.op = "symbol"   -> symbol(reg, c.id, c.bp)
      [] c.op = "infix"    -> infix(reg, c.id, c.bp)
      [] c.op = "infix_r"  -> infix_r(reg, c.id, c.bp)
      [] c.op = "prefix"   -> prefix(reg, c.id, c.bp)
      [] c.op = "constant" -> constant(reg, c.id)
      [] c.op = "nud"      -> method(reg, c.id, c.bp, "nud", c.kind)
      [] c.op = "led"      -> method(reg, c.id, c.bp, "led", c.kind)

\* The binding power a registration statement passes to symbol().
PassedBp(c) == IF c.op \in {"prefix", "constant"} THEN 0 ELSE c.bp

Call(op, id, bp, kind) == [op |-> op, id |-> id, bp |-> bp, kind |-> kind]

Sym(id, bp) == Call("symbol", id, bp, "")
Inf(id, bp) == Call("infix", id, bp, "")
InfR(id, bp) == Call("infix_r", id, bp, "")
Pre(id, bp) == Call("prefix", id, bp, "")
Con(id) == Call("constant", id, 0, "")
Nud(id, bp, kind) == Call("nud", id, bp, kind)
Led(id, bp, kind) == Call("led", id, bp, kind)

\* The registration statements the module executes when it is loaded,
\* in source order.
GrammarScript ==
    << Sym("lambda", 20), Sym("if", 20),
       InfR("or", 30), InfR("and", 40),
       Pre("not", 50),
       Inf("in", 60),
       Inf("<", 60), Inf("<=", 60), Inf(">", 60), Inf(">=", 60),
       Inf("<>", 60), Inf("!=", 60), Inf("==", 60),
       Inf("|", 70), Inf("^", 80), Inf("&", 90),
       Inf("<<", 100), Inf(">>", 100),
       Inf("+", 110), Inf("-", 110),
       Inf("*", 120), Inf("/", 120), Inf("//", 120), Inf("%", 120),
       Pre("-", 130), Pre("+", 130), Pre("~", 130),
       InfR("**", 140),
       Sym(".", 150), Sym("[", 150), Sym("(", 150),
       Nud("(literal)", 0, "self"), Nud("(name)", 0, "self"),
       Sym("(end)", 0),
       Nud("(", 0, "group"),
       Sym(")", 0),
       Led("if", 0, "if"), Sym("else", 0),
       Led(".", 0, "dot"),
       Led("[", 0, "index"), Sym("]", 0),
       Sym("(", 0), Sym(",", 0), Led("(", 0, "call"),
       Sym(":", 0), Nud("lambda", 0, "lambda"),
       Con("None"), Con("True"), Con("False"),
       Led("not", 60, "not_in"),
       Led("is", 60, "is"),
       Nud("(", 0, "tuple"),
       Sym("]", 0), Nud("[", 0, "list"),
       Sym("}", 0), Sym(":", 0), Nud("{", 0, "dict") >>

\* The registration statements of pratt-rd-parser-2.py.
GrammarScript2 ==
    << Inf("+", 10), Inf("-", 10), Inf("*", 20), Inf("/", 20),
       Pre("+", 100), Pre("-", 100),
       InfR("**", 30),
       Nud("(literal)", 0, "self"), Sym("(end)", 0) >>

\* The only element of a one-element set.
Only(S) == CHOOSE x \in S : TRUE

RECURSIVE Load(_, _)
\* The registry after the first n statements of a script.
Load(script, n) ==
    IF n = 0 THEN EmptyRegistry
    ELSE Only({ Register(reg, script[n]) : reg \in {Load(script, n - 1)} })

\* The registry once the module has been loaded.
Grammar == Load(GrammarScript, Len(GrammarScript))

(***************************************************************************)
(* Lexical token stream and token adapter                                  *)
(***************************************************************************)

Raw(kind, text) == [kind |-> kind, text |-> text]

Openers == {"(", "[", "{"}

Closers == {")", "]", "}"}

\* parenlev of the standard tokenizer after the first n raw tokens.
RECURSIVE ParenLev(_, _)
ParenLev(prog, n) ==
    IF n = 0 THEN 0
    ELSE ParenLev(prog, n - 1)
         + (IF prog[n].kind = "OP" /\ prog[n].text \in Openers THEN 1
            ELSE IF prog[n].kind = "OP" /\ prog[n].text \in Closers THEN -1
            ELSE 0)

\* tokenize.generate_tokens over the one-line program: its i-th item.  After
\* the last lexeme the library yields ENDMARKER, unless brackets are
\* unbalanced (parenlev # 0), when it raises TokenError at end of input.
generate_tokens(prog, i) ==
    IF i <= Len(prog) THEN prog[i]
    ELSE IF ParenLev(prog, Len(prog)) = 0 THEN Raw("ENDMARKER", "")
    ELSE Raw("TokenError", "EOF in multi-line statement")

type_map ==
    [k \in {"NUMBER", "STRING", "OP", "NAME"} |->
        CASE k \in {"NUMBER", "STRING"} -> "(literal)"
          [] k = "OP"   -> "(operator)"
          [] k = "NAME" -> "(name)"]

Exc(type, msg, arg, where) ==
    [type |-> type, msg |-> msg, arg |-> arg, where |-> where]

NoExc == Exc("", "", "", "")

tokenize_python_mutant_no_end(prog, i) ==
    IF i > Len(prog)
    THEN [tag |-> "stop", id |-> "", value |-> "", exc |-> NoExc]
    ELSE LET t == generate_tokens(prog, i) IN
         IF t.kind \in DOMAIN type_map
         THEN [tag |-> "yield", id |-> type_map[t.kind], value |-> t.text,
               exc |-> NoExc]
         ELSE [tag |-> "raise", id |-> "", value |-> "",
               exc |-> Exc("SyntaxError", "Syntax Error", "", "tokenize_python")]

\* tokenize_python: what the i-th resumption of the generator does.
tokenize_python(prog, i) ==
    IF i > Len(prog) + 1
    THEN [tag |-> "stop", id |-> "", value |-> "", exc |-> NoExc]
    ELSE LET t == generate_tokens(prog, i) IN
         IF t.kind = "TokenError"
         THEN [tag |-> "raise", id |-> "", value |-> "",
               exc |-> Exc("TokenError", t.text, "", "generate_tokens")]
         ELSE IF t.kind \in DOMAIN type_map
         THEN [tag |-> "yield", id |-> type_map[t.kind], value |-> t.text,
               exc |-> NoExc]
         ELSE IF t.kind = "ENDMARKER"
         THEN [tag |-> "yield", id |-> "(end)", value |-> "(end)", exc |-> NoExc]
         ELSE [tag |-> "raise", id |-> "", value |-> "",
               exc |-> Exc("SyntaxError", "Syntax Error", "", "tokenize_python")]

\* Child slots of an instance: None, one node, or a Python list of nodes.
None == [k |-> "none", v |-> <<>>]

Node(i) == [k |-> "node", v |-> <<i>>]

List(s) == [k |-> "list", v |-> s]

\* symbol(): a fresh instance of class c; id is inherited from the class,
\* value/first/second/third from symbol_base.
Instance(reg, c, value) ==
    [cls |-> c, id |-> reg.classes[c].id, value |-> value,
     first |-> None, second |-> None, third |-> None]

tokenize_mutant_names_not_looked_up(reg, id, value) ==
    IF id = "(literal)"
    THEN [exc |-> NoExc,
          inst |-> Instance(reg, reg.symbol_table["(literal)"], value)]
    ELSE IF id = "(name)"
    THEN [exc |-> NoExc,
          inst |-> Instance(reg, reg.symbol_table["(name)"], value)]
    ELSE IF value \in DOMAIN reg.symbol_table
    THEN [exc |-> NoExc, inst |-> Instance(reg, reg.symbol_table[value], "")]
    ELSE [exc |-> Exc("SyntaxError", "Unknown operator", id, "tokenize"),
          inst |-> Instance(reg, 1, "")]

tokenize_mutant_operator_as_name(reg, id, value) ==
    IF id = "(literal)"
    THEN [exc |-> NoExc,
          inst |-> Instance(reg, reg.symbol_table["(literal)"], value)]
    ELSE IF value \in DOMAIN reg.symbol_table
    THEN [exc |-> NoExc, inst |-> Instance(reg, reg.symbol_table[value], "")]
    ELSE [exc |-> NoExc,
          inst |-> Instance(reg, reg.symbol_table["(name)"], value)]

\* The body of the for loop of tokenize for one (id, value) pair: the
\* instance to yield, or the error.
tokenize(reg, id, value) ==
    IF id = "(literal)"
    THEN [exc |-> NoExc,
          inst |-> Instance(reg, reg.symbol_table["(literal)"], value)]
    ELSE IF value \in DOMAIN reg.symbol_table
    THEN [exc |-> NoExc, inst |-> Instance(reg, reg.symbol_table[value], "")]
    ELSE IF id = "(name)"
    THEN [exc |-> NoExc,
          inst |-> Instance(reg, reg.symbol_table["(name)"], value)]
    ELSE [exc |-> Exc("SyntaxError", "Unknown operator", id, "tokenize"),
          inst |-> Instance(reg, 1, "")]

Ev(ev, tok) == [ev |-> ev, tok |-> tok]

\* The value of next() as a call fails with exception e.
NextRaises(e, g, h, tok) ==
    [gen |-> [pos |-> g.pos, state |-> "finished"], heap |-> h, tok |-> tok,
     ev |-> <<Ev("next", 0)>>, exc |-> e]

\* next(): resume the generator g = tokenize(program).  A generator that has
\* raised or run off its end is finished and raises StopIteration.  The
\* result carries the global token after `token = next()`: the instance
\* yielded, or tok unchanged when the call raises.
next(prog, reg, g, h, tok) ==
    LET p == tokenize_python(prog, g.pos + 1)
        s == tokenize(reg, p.id, p.value)
    IN  IF g.state = "finished" \/ p.tag = "stop"
        THEN NextRaises(Exc("StopIteration", "", "", "next"), g, h, tok)
        ELSE IF p.tag = "raise" THEN NextRaises(p.exc, g, h, tok)
        ELSE IF s.exc # NoExc THEN NextRaises(s.exc, g, h, tok)
        ELSE [gen |-> [pos |-> g.pos + 1, state |-> "active"],
              heap |-> Append(h, s.inst),
              tok |-> Len(h) + 1,
              ev |-> <<Ev("next", Len(h) + 1)>>,
              exc |-> NoExc]

\* tokenize of pratt-rd-parser-2.py: what the i-th resumption of the
\* generator does.  The raw tokens are the matches of token_pat: a number,
\* or an operator (**, or any one character).
tokenize2(prog, reg, i) ==
    IF i > Len(prog) + 1
    THEN [tag |-> "stop", exc |-> NoExc, inst |-> Instance(reg, 1, "")]
    ELSE IF i = Len(prog) + 1
    THEN [tag |-> "yield", exc |-> NoExc,
          inst |-> Instance(reg, reg.symbol_table["(end)"], "")]
    ELSE IF prog[i].kind = "NUMBER"
    THEN [tag |-> "yield", exc |-> NoExc,
          inst |-> Instance(reg, reg.symbol_table["(literal)"], prog[i].text)]
    ELSE IF prog[i].text \in DOMAIN reg.symbol_table
    THEN [tag |-> "yield", exc |-> NoExc,
          inst |-> Instance(reg, reg.symbol_table[prog[i].text], "")]
    ELSE [tag |-> "raise",
          exc |-> Exc("SyntaxError", "Unknown operator", "", "tokenize"),
          inst |-> Instance(reg, 1, "")]

\* next() of pratt-rd-parser-2.py
next2(prog, reg, g, h, tok) ==
    LET s == tokenize2(prog, reg, g.pos + 1)
    IN  IF g.state = "finished" \/ s.tag = "stop"
        THEN NextRaises(Exc("StopIteration", "", "", "next"), g, h, tok)
        ELSE IF s.tag = "raise" THEN NextRaises(s.exc, g, h, tok)
        ELSE [gen |-> [pos |-> g.pos + 1, state |-> "active"],
              heap |-> Append(h, s.inst),
              tok |-> Len(h) + 1,
              ev |-> <<Ev("next", Len(h) + 1)>>,
              exc |-> NoExc]

\* advance(id) with the global token tok; id = "" is advance().
advance(id, prog, reg, tok, g, h) ==
    IF id # "" /\ h[tok].id # id
    THEN [gen |-> g, heap |-> h, tok |-> tok, ev |-> <<>>,
          exc |-> Exc("SyntaxError", "Expected", id, "advance")]
    ELSE [next(prog, reg, g, h, tok) EXCEPT !.ev = <<Ev("advance", tok)>> \o @]

(***************************************************************************)
(* Call stack                                                              *)
(***************************************************************************)

\* A frame: the function, where it is, its self/t, the binding power of its
\* call or closure, its left argument, the value its last call returned,
\* and the local flag of the tuple form.
Frame(fn, pc, self, bp, left) ==
    [fn |-> fn, pc |-> pc, self |-> self, bp |-> bp, left |-> left,
     ret |-> 0, comma |-> FALSE]

Top == stack[Len(stack)]

Rest == SubSeq(stack, 1, Len(stack) - 1)

WithTop(f) == [stack EXCEPT ![Len(stack)] = f]

\* The stack after the top frame returned v to its caller.
Returned(v) ==
    IF Len(stack) = 1 THEN <<>> ELSE [Rest EXCEPT ![Len(stack) - 1].ret = v]

Running == outcome.status = "running" /\ stack # <<>>

In(fn, pc) == Running /\ Top.fn = fn /\ Top.pc = pc

\* What one step of the top frame comes to: it goes on with stack stk,
Go(stk, tok, g, h, ev) ==
    [stack |-> stk, token |-> tok, gen |-> g, heap |-> h, ev |-> ev,
     exc |-> NoExc, val |-> 0]

\* it becomes f and calls expression(rbp),
Enter(f, rbp, tok, g, h, ev) ==
    Go(Append(WithTop(f), Frame("expression", "start", 0, rbp, 0)),
       tok, g, h, ev \o <<Ev("expression", rbp)>>)

\* it returns v,
Back(v, tok, g, h, ev) ==
    [stack |-> Returned(v), token |-> tok, gen |-> g, heap |-> h, ev |-> ev,
     exc |-> NoExc, val |-> v]

\* or it raises e, which nothing below parse() catches.
Fail(e, tok, g, h, ev) ==
    [stack |-> <<>>, token |-> tok, gen |-> g, heap |-> h, ev |-> ev,
     exc |-> e, val |-> 0]

\* The step after a = next() or advance(): the error of a, or r.
After(a, r) ==
    IF a.exc # NoExc THEN Fail(a.exc, a.tok, a.gen, a.heap, a.ev) ELSE r

\* a step whose id rewrite (self.id = ...) lands on the class of the instance
\* and not on the instance
Commit_mutant_id_on_class(r) ==
    /\ stack' = r.stack
    /\ token' = r.token
    /\ gen' = r.gen
    /\ heap' = r.heap
    /\ log' = log \o r.ev
    /\ outcome' = IF r.exc # NoExc
                  THEN [status |-> "raised", value |-> 0, exc |-> r.exc]
                  ELSE IF r.stack = <<>>
                  THEN [status |-> "returned", value |-> r.val, exc |-> NoExc]
                  ELSE outcome
    /\ registry' =
         LET cl == registry.classes
             other(c) == {i \in DOMAIN r.heap :
                            r.heap[i].cls = c /\ r.heap[i].id # cl[c].id}
         IN  [registry EXCEPT !.classes =
                [c \in DOMAIN cl |->
                   IF other(c) = {} THEN cl[c]
                   ELSE [cl[c] EXCEPT !.id = r.heap[CHOOSE i \in other(c) : TRUE].id]]]
    /\ UNCHANGED <<passed, program, suspended, calcs>>

Commit(r) ==
    /\ stack' = r.stack
    /\ token' = r.token
    /\ gen' = r.gen
    /\ heap' = r.heap
    /\ log' = log \o r.ev
    /\ outcome' = IF r.exc # NoExc
                  THEN [status |-> "raised", value |-> 0, exc |-> r.exc]
                  ELSE IF r.stack = <<>>
                  THEN [status |-> "returned", value |-> r.val, exc |-> NoExc]
                  ELSE outcome
    /\ UNCHANGED <<registry, passed, program, suspended, calcs>>

\* The step with result x, x being worked out once.
Do(x) == \E r \in {x} : Commit(r)

\* The program of the generator the global next is bound to: the argument
\* of the latest parse() call, made by the running thread or by the other.
Source == IF suspended.bound THEN suspended.program ELSE program

Adv(id, h) == advance(id, Source, registry, token, gen, h)

Desc(h, i) == registry.classes[h[i].cls]

(***************************************************************************)
(* Parsing engine                                                          *)
(***************************************************************************)

NudFn(kind) == IF kind = "none" THEN "base_nud" ELSE kind

LedFn(kind) == IF kind = "none" THEN "base_led" ELSE kind

\* expression(rbp) requesting two tokens where it should request one
ExprStart_mutant_skips_a_token ==
    /\ In("expression", "start")
    /\ \E n \in {next(Source, registry, gen, heap, token)} :
         \E m \in {IF n.exc # NoExc THEN n
                   ELSE next(Source, registry, n.gen, n.heap, n.tok)} :
           Do(After(m, Go(WithTop([Top EXCEPT !.self = token, !.pc = "nud"]),
                          m.tok, m.gen, m.heap, n.ev \o m.ev)))

\* expression(rbp): t = token; token = next()
ExprStart ==
    /\ In("expression", "start")
    /\ \E n \in {next(Source, registry, gen, heap, token)} :
         Do(After(n, Go(WithTop([Top EXCEPT !.self = token, !.pc = "nud"]),
                        n.tok, n.gen, n.heap, n.ev)))

\* expression(rbp): left = t.nud()
ExprNud ==
    /\ In("expression", "nud")
    /\ Do(Go(Append(WithTop([Top EXCEPT !.pc = "loop"]),
                    Frame(NudFn(Desc(heap, Top.self).nud.kind), "0", Top.self,
                          Desc(heap, Top.self).nud.bp, 0)),
             token, gen, heap, <<Ev("nud", Top.self)>>))

ExprLoop_mutant_ignores_rbp ==
    /\ In("expression", "loop")
    /\ IF 0 < Desc(heap, token).lbp
       THEN \E n \in {next(Source, registry, gen, heap, token)} :
              Do(After(n, Go(WithTop([Top EXCEPT !.self = token, !.pc = "led"]),
                             n.tok, n.gen, n.heap, n.ev)))
       ELSE Do(Back(Top.ret, token, gen, heap, <<>>))

ExprLoop_mutant_consumes_nothing ==
    /\ In("expression", "loop")
    /\ IF Top.bp < Desc(heap, token).lbp
       THEN UNCHANGED vars
       ELSE Do(Back(Top.ret, token, gen, heap, <<>>))

\* expression(rbp): while rbp < token.lbp: t = token; token = next()
\* and, when the loop ends, return left
ExprLoop ==
    /\ In("expression", "loop")
    /\ IF Top.bp < Desc(heap, token).lbp
       THEN \E n \in {next(Source, registry, gen, heap, token)} :
              Do(After(n, Go(WithTop([Top EXCEPT !.self = token, !.pc = "led"]),
                             n.tok, n.gen, n.heap, n.ev)))
       ELSE Do(Back(Top.ret, token, gen, heap, <<>>))

\* expression(rbp): left = t.led(left)
ExprLed ==
    /\ In("expression", "led")
    /\ Do(Go(Append(WithTop([Top EXCEPT !.pc = "loop"]),
                    Frame(LedFn(Desc(heap, Top.self).led.kind), "0", Top.self,
                          Desc(heap, Top.self).led.bp, Top.ret)),
             token, gen, heap, <<Ev("led", Top.self)>>))

\* symbol_base.nud and symbol_base.led
BaseNud ==
    /\ In("base_nud", "0")
    /\ Do(Fail(Exc("SyntaxError", "Syntax error", heap[Top.self].id, "nud"),
               token, gen, heap, <<>>))

BaseLed ==
    /\ In("base_led", "0")
    /\ Do(Fail(Exc("SyntaxError", "Unknown operator", heap[Top.self].id, "led"),
               token, gen, heap, <<>>))

\* symbol("(literal)").nud = symbol("(name)").nud = lambda self: self
SelfNud ==
    /\ In("self", "0")
    /\ Do(Back(Top.self, token, gen, heap, <<>>))

\* an infix led that stores its left operand in both slots
InfixLed_mutant_left_twice ==
    \/ /\ In("infix", "0")
       /\ Do(Enter([Top EXCEPT !.pc = "1"], Top.bp, token, gen,
                   [heap EXCEPT ![Top.self].first = Node(Top.left)], <<>>))
    \/ /\ In("infix", "1")
       /\ Do(Back(Top.self, token, gen,
                  [heap EXCEPT ![Top.self].second = Node(Top.left)], <<>>))

\* the led that infix(id, bp) installs
InfixLed ==
    \/ /\ In("infix", "0")
       /\ Do(Enter([Top EXCEPT !.pc = "1"], Top.bp, token, gen,
                   [heap EXCEPT ![Top.self].first = Node(Top.left)], <<>>))
    \/ /\ In("infix", "1")
       /\ Do(Back(Top.self, token, gen,
                  [heap EXCEPT ![Top.self].second = Node(Top.ret)], <<>>))

PrefixNud_mutant_operand_at_zero ==
    \/ /\ In("prefix", "0")
       /\ Do(Enter([Top EXCEPT !.pc = "1"], 0, token, gen, heap, <<>>))
    \/ /\ In("prefix", "1")
       /\ Do(Back(Top.self, token, gen,
                  [heap EXCEPT ![Top.self].first = Node(Top.ret),
                               ![Top.self].second = None], <<>>))

\* the nud that prefix(id, bp) installs
PrefixNud ==
    \/ /\ In("prefix", "0")
       /\ Do(Enter([Top EXCEPT !.pc = "1"], Top.bp, token, gen, heap, <<>>))
    \/ /\ In("prefix", "1")
       /\ Do(Back(Top.self, token, gen,
                  [heap EXCEPT ![Top.self].first = Node(Top.ret),
                               ![Top.self].second = None], <<>>))

InfixRLed_mutant_same_power ==
    \/ /\ In("infix_r", "0")
       /\ Do(Enter([Top EXCEPT !.pc = "1"], Top.bp, token, gen,
                   [heap EXCEPT ![Top.self].first = Node(Top.left)], <<>>))
    \/ /\ In("infix_r", "1")
       /\ Do(Back(Top.self, token, gen,
                  [heap EXCEPT ![Top.self].second = Node(Top.ret)], <<>>))

\* the led that infix_r(id, bp) installs
InfixRLed ==
    \/ /\ In("infix_r", "0")
       /\ Do(Enter([Top EXCEPT !.pc = "1"], Top.bp - 1, token, gen,
                   [heap EXCEPT ![Top.self].first = Node(Top.left)], <<>>))
    \/ /\ In("infix_r", "1")
       /\ Do(Back(Top.self, token, gen,
                  [heap EXCEPT ![Top.self].second = Node(Top.ret)], <<>>))

\* advance(id) on heap h, then return self
AdvanceAndReturn(id, h) ==
    \E a \in {Adv(id, h)} :
      Do(After(a, Back(Top.self, a.tok, a.gen, a.heap, a.ev)))

\* advance(id) on heap h, then call expression(rbp) and go on at pc
AdvanceAndEnter(id, h, pc, rbp) ==
    \E a \in {Adv(id, h)} :
      Do(After(a, Enter([Top EXCEPT !.pc = pc], rbp, a.tok, a.gen, a.heap, a.ev)))

\* advance(id) on heap h, then go on as frame f
AdvanceAndGo(id, h, f) ==
    \E a \in {Adv(id, h)} :
      Do(After(a, Go(WithTop(f), a.tok, a.gen, a.heap, a.ev)))

IfLed_mutant_else_optional ==
    \/ /\ In("if", "0")
       /\ Do(Enter([Top EXCEPT !.pc = "1"], 0, token, gen,
                   [heap EXCEPT ![Top.self].first = Node(Top.left)], <<>>))
    \/ /\ In("if", "1")
       /\ IF heap[token].id = "else"
          THEN AdvanceAndEnter("else",
                               [heap EXCEPT ![Top.self].second = Node(Top.ret)],
                               "2", 0)
          ELSE Do(Back(Top.self, token, gen,
                       [heap EXCEPT ![Top.self].second = Node(Top.ret)], <<>>))
    \/ /\ In("if", "2")
       /\ Do(Back(Top.self, token, gen,
                  [heap EXCEPT ![Top.self].third = Node(Top.ret)], <<>>))

\* ternary form: symbol("if").led
IfLed ==
    \/ /\ In("if", "0")
       /\ Do(Enter([Top EXCEPT !.pc = "1"], 0, token, gen,
                   [heap EXCEPT ![Top.self].first = Node(Top.left)], <<>>))
    \/ /\ In("if", "1")
       /\ AdvanceAndEnter("else",
                          [heap EXCEPT ![Top.self].second = Node(Top.ret)],
                          "2", 0)
    \/ /\ In("if", "2")
       /\ Do(Back(Top.self, token, gen,
                  [heap EXCEPT ![Top.self].third = Node(Top.ret)], <<>>))

\* attribute lookup: symbol(".").led
DotLed ==
    /\ In("dot", "0")
    /\ IF heap[token].id # "(name)"
       THEN Do(Fail(Exc("SyntaxError", "Expected an attribute name.", "", "dot"),
                    token, gen, heap, <<>>))
       ELSE AdvanceAndReturn("", [heap EXCEPT ![Top.self].first = Node(Top.left),
                                              ![Top.self].second = Node(token)])

IndexLed_mutant_nearest_operand ==
    \/ /\ In("index", "0")
       /\ Do(Enter([Top EXCEPT !.pc = "1"], 0, token, gen,
                   [heap EXCEPT ![Top.self].first = Node(Top.self - 1)], <<>>))
    \/ /\ In("index", "1")
       /\ AdvanceAndReturn("]", [heap EXCEPT ![Top.self].second = Node(Top.ret)])

\* item access: symbol("[").led
IndexLed ==
    \/ /\ In("index", "0")
       /\ Do(Enter([Top EXCEPT !.pc = "1"], 0, token, gen,
                   [heap EXCEPT ![Top.self].first = Node(Top.left)], <<>>))
    \/ /\ In("index", "1")
       /\ AdvanceAndReturn("]", [heap EXCEPT ![Top.self].second = Node(Top.ret)])

CallLed_mutant_prepends ==
    \/ /\ In("call", "0")
       /\ IF heap[token].id # ")"
          THEN Do(Enter([Top EXCEPT !.pc = "1"], 0, token, gen,
                        [heap EXCEPT ![Top.self].first = Node(Top.left),
                                     ![Top.self].second = List(<<>>)], <<>>))
          ELSE AdvanceAndReturn(")",
                                [heap EXCEPT ![Top.self].first = Node(Top.left),
                                             ![Top.self].second = List(<<>>)])
    \/ /\ In("call", "1")
       /\ IF heap[token].id # ","
          THEN AdvanceAndReturn(")", [heap EXCEPT ![Top.self].second =
                                                     List(<<Top.ret>> \o @.v)])
          ELSE AdvanceAndEnter(",", [heap EXCEPT ![Top.self].second =
                                                    List(<<Top.ret>> \o @.v)],
                               "1", 0)

\* function call: symbol("(").led
CallLed ==
    \/ /\ In("call", "0")
       /\ IF heap[token].id # ")"
          THEN Do(Enter([Top EXCEPT !.pc = "1"], 0, token, gen,
                        [heap EXCEPT ![Top.self].first = Node(Top.left),
                                     ![Top.self].second = List(<<>>)], <<>>))
          ELSE AdvanceAndReturn(")",
                                [heap EXCEPT ![Top.self].first = Node(Top.left),
                                             ![Top.self].second = List(<<>>)])
    \/ /\ In("call", "1")
       /\ IF heap[token].id # ","
          THEN AdvanceAndReturn(")", [heap EXCEPT ![Top.self].second =
                                                     List(Append(@.v, Top.ret))])
          ELSE AdvanceAndEnter(",", [heap EXCEPT ![Top.self].second =
                                                    List(Append(@.v, Top.ret))],
                               "1", 0)

\* symbol("lambda").nud
LambdaNud ==
    \/ /\ In("lambda", "0")
       /\ IF heap[token].id # ":"
          THEN Do(Go(Append(WithTop([Top EXCEPT !.pc = "1"]),
                            Frame("argument_list", "0", Top.self, 0, 0)),
                     token, gen, [heap EXCEPT ![Top.self].first = List(<<>>)],
                     <<>>))
          ELSE AdvanceAndEnter(":", [heap EXCEPT ![Top.self].first = List(<<>>)],
                               "2", 0)
    \/ /\ In("lambda", "1")
       /\ AdvanceAndEnter(":", heap, "2", 0)
    \/ /\ In("lambda", "2")
       /\ Do(Back(Top.self, token, gen,
                  [heap EXCEPT ![Top.self].second = Node(Top.ret)], <<>>))

argument_list_mutant_any_token ==
    \/ /\ In("argument_list", "0")
       /\ AdvanceAndGo("", [heap EXCEPT ![Top.self].first =
                                           List(Append(@.v, token))],
                       [Top EXCEPT !.pc = "1"])
    \/ /\ In("argument_list", "1")
       /\ IF heap[token].id # ","
          THEN Do(Back(0, token, gen, heap, <<>>))
          ELSE AdvanceAndGo(",", heap, [Top EXCEPT !.pc = "0"])

\* argument_list(list), list being the first slot of the lambda node self
argument_list ==
    \/ /\ In("argument_list", "0")
       /\ IF heap[token].id # "(name)"
          THEN Do(Fail(Exc("SyntaxError", "Expected an argument name.", "",
                           "argument_list"), token, gen, heap, <<>>))
          ELSE AdvanceAndGo("", [heap EXCEPT ![Top.self].first =
                                                List(Append(@.v, token))],
                            [Top EXCEPT !.pc = "1"])
    \/ /\ In("argument_list", "1")
       /\ IF heap[token].id # ","
          THEN Do(Back(0, token, gen, heap, <<>>))
          ELSE AdvanceAndGo(",", heap, [Top EXCEPT !.pc = "0"])

\* the nud that constant(id) installs
ConstantNud ==
    /\ In("constant", "0")
    /\ Do(Back(Top.self, token, gen,
               [heap EXCEPT ![Top.self].id = "(literal)",
                            ![Top.self].value = Desc(heap, Top.self).id], <<>>))

NotInLed_mutant_keeps_id ==
    \/ /\ In("not_in", "0")
       /\ IF heap[token].id # "in"
          THEN Do(Fail(Exc("SyntaxError", "Invalid syntax", "", "not_in"),
                       token, gen, heap, <<>>))
          ELSE \E a \in {Adv("", heap)} :
                 Do(After(a, Enter([Top EXCEPT !.pc = "1"], 60, a.tok, a.gen,
                                   [a.heap EXCEPT ![Top.self].first = Node(Top.left)],
                                   a.ev)))
    \/ /\ In("not_in", "1")
       /\ Do(Back(Top.self, token, gen,
                  [heap EXCEPT ![Top.self].second = Node(Top.ret)], <<>>))

\* `not in`: symbol("not").led
NotInLed ==
    \/ /\ In("not_in", "0")
       /\ IF heap[token].id # "in"
          THEN Do(Fail(Exc("SyntaxError", "Invalid syntax", "", "not_in"),
                       token, gen, heap, <<>>))
          ELSE \E a \in {Adv("", heap)} :
                 Do(After(a, Enter([Top EXCEPT !.pc = "1"], 60, a.tok, a.gen,
                                   [a.heap EXCEPT ![Top.self].id = "not in",
                                                  ![Top.self].first = Node(Top.left)],
                                   a.ev)))
    \/ /\ In("not_in", "1")
       /\ Do(Back(Top.self, token, gen,
                  [heap EXCEPT ![Top.self].second = Node(Top.ret)], <<>>))

\* `is` and `is not`: symbol("is").led
IsLed ==
    \/ /\ In("is", "0")
       /\ IF heap[token].id = "not"
          THEN \E a \in {Adv("", heap)} :
                 Do(After(a, Enter([Top EXCEPT !.pc = "1"], 60, a.tok, a.gen,
                                   [a.heap EXCEPT ![Top.self].id = "is not",
                                                  ![Top.self].first = Node(Top.left)],
                                   a.ev)))
          ELSE Do(Enter([Top EXCEPT !.pc = "1"], 60, token, gen,
                        [heap EXCEPT ![Top.self].first = Node(Top.left)], <<>>))
    \/ /\ In("is", "1")
       /\ Do(Back(Top.self, token, gen,
                  [heap EXCEPT ![Top.self].second = Node(Top.ret)], <<>>))

TupleEnd_mutant_forgets_comma(h, comma) ==
    \E a \in {Adv(")", h)} :
      Do(After(a, Back(IF h[Top.self].first.v = <<>>
                       THEN Top.self ELSE h[Top.self].first.v[1],
                       a.tok, a.gen, a.heap, a.ev)))

\* The end of the tuple form: advance(")"), then return self if the list h
\* holds is empty or a comma was seen, and its only element otherwise.
TupleEnd(h, comma) ==
    \E a \in {Adv(")", h)} :
      Do(After(a, Back(IF h[Top.self].first.v = <<>> \/ comma
                       THEN Top.self ELSE h[Top.self].first.v[1],
                       a.tok, a.gen, a.heap, a.ev)))

\* tuple: symbol("(").nud
TupleNud ==
    \/ /\ In("tuple", "0")
       /\ IF heap[token].id # ")"
          THEN Do(Enter([Top EXCEPT !.pc = "1", !.comma = FALSE], 0, token, gen,
                        [heap EXCEPT ![Top.self].first = List(<<>>)], <<>>))
          ELSE TupleEnd([heap EXCEPT ![Top.self].first = List(<<>>)], FALSE)
    \/ /\ In("tuple", "1")
       /\ IF heap[token].id # ","
          THEN TupleEnd([heap EXCEPT ![Top.self].first =
                                        List(Append(@.v, Top.ret))], Top.comma)
          ELSE AdvanceAndGo(",", [heap EXCEPT ![Top.self].first =
                                                 List(Append(@.v, Top.ret))],
                            [Top EXCEPT !.pc = "head", !.comma = TRUE])
    \/ /\ In("tuple", "head")
       /\ IF heap[token].id = ")"
          THEN TupleEnd(heap, Top.comma)
          ELSE Do(Enter([Top EXCEPT !.pc = "1"], 0, token, gen, heap, <<>>))

\* list: symbol("[").nud
ListNud ==
    \/ /\ In("list", "0")
       /\ IF heap[token].id # "]"
          THEN Do(Enter([Top EXCEPT !.pc = "1"], 0, token, gen,
                        [heap EXCEPT ![Top.self].first = List(<<>>)], <<>>))
          ELSE AdvanceAndReturn("]", [heap EXCEPT ![Top.self].first = List(<<>>)])
    \/ /\ In("list", "1")
       /\ IF heap[token].id # ","
          THEN AdvanceAndReturn("]", [heap EXCEPT ![Top.self].first =
                                                     List(Append(@.v, Top.ret))])
          ELSE AdvanceAndGo(",", [heap EXCEPT ![Top.self].first =
                                                 List(Append(@.v, Top.ret))],
                            [Top EXCEPT !.pc = "head"])
    \/ /\ In("list", "head")
       /\ IF heap[token].id = "]"
          THEN AdvanceAndReturn("]", heap)
          ELSE Do(Enter([Top EXCEPT !.pc = "1"], 0, token, gen, heap, <<>>))

\* dict: symbol("{").nud
DictNud ==
    \/ /\ In("dict", "0")
       /\ IF heap[token].id # "}"
          THEN Do(Enter([Top EXCEPT !.pc = "1"], 0, token, gen,
                        [heap EXCEPT ![Top.self].first = List(<<>>)], <<>>))
          ELSE AdvanceAndReturn("}", [heap EXCEPT ![Top.self].first = List(<<>>)])
    \/ /\ In("dict", "1")
       /\ AdvanceAndEnter(":", [heap EXCEPT ![Top.self].first =
                                               List(Append(@.v, Top.ret))],
                          "2", 0)
    \/ /\ In("dict", "2")
       /\ IF heap[token].id # ","
          THEN AdvanceAndReturn("}", [heap EXCEPT ![Top.self].first =
                                                     List(Append(@.v, Top.ret))])
          ELSE AdvanceAndGo(",", [heap EXCEPT ![Top.self].first =
                                                 List(Append(@.v, Top.ret))],
                            [Top EXCEPT !.pc = "head"])
    \/ /\ In("dict", "head")
       /\ IF heap[token].id = "}"
          THEN AdvanceAndReturn("}", heap)
          ELSE Do(Enter([Top EXCEPT !.pc = "1"], 0, token, gen, heap, <<>>))

(***************************************************************************)
(* Inputs                                                                  *)
(***************************************************************************)

MaxLen == 3      \* longest program of the exhaustive family

MaxChain == 3    \* most operators in a power chain, or postfix forms in a row

MaxElems == 2    \* most elements of a collection or arguments of a call

Words == {"a", "b", "c", "f", "if", "else", "lambda", "not", "in", "is",
          "or", "and", "None", "True", "False"}

Numbers == {"0", "1", "2", "3"}

Strings == {"'s'"}

\* Lexemes the standard tokenizer gives a kind outside type_map
\* (NEWLINE for a trailing line break, ERRORTOKEN for a stray character).
Others == {"\n", "$"}

\* The raw token the standard tokenizer makes of a lexeme.
Lex(t) ==
    Raw(CASE t \in Words   -> "NAME"
          [] t \in Numbers -> "NUMBER"
          [] t \in Strings -> "STRING"
          [] t = "\n"      -> "NEWLINE"
          [] t = "$"       -> "ERRORTOKEN"
          [] OTHER         -> "OP",
        t)

P(s) == [i \in DOMAIN s |-> Lex(s[i])]

\* Operators in infix position, as lexeme sequences.
BinaryOps ==
    { <<o>> : o \in {"or", "and", "in", "<", "<=", ">", ">=", "<>", "!=", "==",
                     "|", "^", "&", "<<", ">>", "+", "-", "*", "/", "//", "%",
                     "**", "is"} }
    \cup { <<"not", "in">>, <<"is", "not">> }

AtomTriples == { <<"a", "b", "c">>, <<"1", "'s'", "None">> }

\* a OP1 b OP2 c
ChainPrograms ==
    { <<t[1]>> \o o1 \o <<t[2]>> \o o2 \o <<t[3]>> :
        t \in AtomTriples, o1 \in BinaryOps, o2 \in BinaryOps }

RECURSIVE PowChain(_)
PowChain(n) == IF n = 0 THEN <<"a">> ELSE <<"a", "**">> \o PowChain(n - 1)

PowPrograms == { PowChain(n) : n \in 1..MaxChain }

\* ( a OP1 b ) OP2 c, and the same with something else where ")" should be
ParenPrograms ==
    { <<"(", t[1]>> \o o1 \o <<t[2], ")">> \o o2 \o <<t[3]>> :
        t \in AtomTriples, o1 \in BinaryOps, o2 \in BinaryOps }
    \cup { <<"(", "a">> \o o1 \o <<"b">> \o x :
             o1 \in BinaryOps,
             x \in { <<>>, <<"]">>, <<"]", "*", "c">>, <<"c", ")">>,
                     <<"else", ")">>, <<":", ")">>, <<"}">> } }

Elements == { <<"a">>, <<"a", "+", "1">>, <<"None">> }

Keys == { <<"a">>, <<"1">> }

RECURSIVE Items(_)
\* comma-separated lists of n elements
Items(n) ==
    IF n = 0 THEN { <<>> }
    ELSE IF n = 1 THEN Elements
    ELSE { e \o <<",">> \o r : e \in Elements, r \in Items(n - 1) }

RECURSIVE Pairs(_)
Pairs(n) ==
    IF n = 0 THEN { <<>> }
    ELSE IF n = 1 THEN { k \o <<":">> \o v : k \in Keys, v \in Elements }
    ELSE { k \o <<":">> \o v \o <<",">> \o r :
             k \in Keys, v \in Elements, r \in Pairs(n - 1) }

Trailing == { <<>>, <<",">> }

CollectionPrograms ==
    UNION { { <<"(">> \o e \o c \o <<")">> : e \in Items(n), c \in Trailing }
            \cup { <<"[">> \o e \o c \o <<"]">> : e \in Items(n), c \in Trailing }
            \cup { <<"{">> \o e \o c \o <<"}">> : e \in Pairs(n), c \in Trailing }
            : n \in 0..MaxElems }

Operands == { <<"a">>, <<"a", "+", "1">>, <<"a", "or", "b">>, <<"-", "a">>,
              <<"a", "if", "b", "else", "c">> }

\* X if C else Y, and X if C followed by something else
TernaryPrograms ==
    { x \o <<"if">> \o c \o <<"else">> \o y :
        x \in Operands, c \in Operands, y \in Operands }
    \cup { x \o <<"if">> \o c \o z :
             x \in Operands, c \in Operands,
             z \in { <<>>, <<")">>, <<"c">>, <<":", "c">>, <<",", "c">> } }

Postfixes ==
    { <<".", "b">>, <<"[", "0", "]">>, <<"(", ")">>, <<"(", "1", ",", "2", ")">> }

RECURSIVE PostfixChains(_)
PostfixChains(n) ==
    IF n = 0 THEN { <<"a">> }
    ELSE PostfixChains(n - 1)
         \cup { c \o q : c \in PostfixChains(n - 1), q \in Postfixes }

\* f(e1, ..., en), with and without the closing parenthesis
CallPrograms ==
    UNION { { <<"f", "(">> \o e \o c : e \in Items(n),
                c \in { <<")">>, <<",", ")">>, <<"]">>, <<")", "+", "b">> } }
            : n \in 0..MaxElems }

LambdaPrograms ==
    { <<"lambda">> \o ps \o <<":">> \o b :
        ps \in { <<>>, <<"a">>, <<"a", ",", "b">>, <<"a", ",">>, <<"1">>,
                 <<"a", "b">> },
        b \in Operands }
    \cup { <<"a", "lambda", ":", "b">> }

\* U a OP b
UnaryPrograms ==
    { <<u, "a">> \o o \o <<"b">> : u \in {"-", "+", "~", "not"}, o \in BinaryOps }

\* an operator the grammar does not register, after and before some tokens
UnknownOperatorPrograms ==
    { x \o <<u>> \o y :
        x \in { <<>>, <<"1">>, <<"-">>, <<"1", "+", "2">>, <<"1", "+">>,
                <<"a", "b">>, <<"(", "1">>, <<"f", "(", "1", ")">> },
        u \in { "@", ";", "+=" },
        y \in { <<>>, <<"2">>, <<"@", "2">> } }

Alphabet == {"a", "1", "+", "-", "**", "(", ")", ",", "@", "\n", "else", ".",
             "not"}

RECURSIVE Words_(_)
\* every lexeme sequence of length n over Alphabet
Words_(n) ==
    IF n = 0 THEN { <<>> }
    ELSE { <<x>> \o w : x \in Alphabet, w \in Words_(n - 1) }

ShortPrograms == UNION { Words_(n) : n \in 0..MaxLen }

Programs ==
    { P(s) : s \in ChainPrograms \cup PowPrograms \cup ParenPrograms
                   \cup CollectionPrograms \cup TernaryPrograms
                   \cup PostfixChains(MaxChain) \cup CallPrograms
                   \cup LambdaPrograms \cup UnknownOperatorPrograms
                   \cup UnaryPrograms
                   \cup ShortPrograms }

(***************************************************************************)
(* Specification                                                           *)
(***************************************************************************)

NewGen == [pos |-> 0, state |-> "active"]

Idle == [status |-> "idle", value |-> 0, exc |-> NoExc]

\* The registry of pratt-rd-parser-2.py once it has been loaded.
Grammar2 == Load(GrammarScript2, Len(GrammarScript2))

(***************************************************************************)
(* The two calculators: rd-parser-ebnf.py and                              *)
(* rd-parser-precedence-climbing.py.  A line is the sequence of its        *)
(* lexemes (the pieces lexer.Lexer cuts it into, white space skipped).     *)
(***************************************************************************)

\* Python values a calculator works with: integers (True and False are the
\* integers 1 and 0), None, and the empty string _stmt returns for an empty
\* statement.  A value of kind TypeError, ZeroDivisionError, ValueError is the
\* exception the operator raised; kind float is a result outside the integers.
PyInt(n) == [k |-> "int", v |-> n]

PyNone == [k |-> "None", v |-> 0]

PyEmpty == [k |-> "str", v |-> 0]

PyRaise(e) == [k |-> e, v |-> 0]

Digits == <<"0", "1", "2", "3", "4", "5", "6", "7", "8", "9">>

IsNumber(w) == \E i \in 1..Len(Digits) : Digits[i] = w

\* int(tok.val)
int(w) == (CHOOSE i \in 1..Len(Digits) : Digits[i] = w) - 1

CalcKeywords == [set |-> "SET", if |-> "IF", then |-> "THEN", else |-> "ELSE"]

CalcOperators ==
    {"**", "!=", "==", ">=", "<=", ">>", "<<", "&", "^", "|", "<", ">",
     "+", "-", "*", "/", "(", ")", "="}

\* the type lexer.Lexer gives a lexeme under lex_rules
lex_type(w) ==
    IF w \in DOMAIN CalcKeywords THEN CalcKeywords[w]
    ELSE IF IsNumber(w) THEN "NUMBER"
    ELSE IF w \in CalcOperators THEN w
    ELSE "IDENTIFIER"

\* cur_token.type of lexer.Token(None, None, None), the token after the last
NoType == "None"

\* self.cur_token.type, the parser being in state s
cur(s) == IF s.pos > Len(s.line) THEN NoType ELSE lex_type(s.line[s.pos])

\* self._get_next_token()
get_next_token(s) ==
    IF s.pos > Len(s.line) THEN s ELSE [s EXCEPT !.pos = @ + 1]

\* F(x), x being worked out once
With(x, F(_)) == CHOOSE v \in {F(r) : r \in {x}} : TRUE

\* a call that returned v in state s; a call that raised has s.err set
Ret(s, v) ==
    IF v.k \in {"int", "None", "str"}
    THEN [s |-> s, val |-> v]
    ELSE [s |-> [s EXCEPT !.err = v.k], val |-> PyNone]

\* self._error(msg)
error(s) == Ret(s, PyRaise("ParseError"))

Ok(r) == r.s.err = ""

\* self._match(type): the state after it, or the ParseError
match(s, type) ==
    IF cur(s) = type
    THEN [s |-> get_next_token(s), val |-> PyNone]
    ELSE error(s)

\* bool(v)
Truthy(v) == v.k = "int" /\ v.v # 0

RECURSIVE Pow(_, _)
Pow(a, b) == IF b = 0 THEN 1 ELSE a * Pow(a, b - 1)

\* a bitwise operator on Python integers (two's complement, unbounded):
\* bit(x, y) is the operator on one bit
RECURSIVE Bitwise(_, _, _)
Bitwise(op, a, b) ==
    LET bit(x, y) == CASE op = "|" -> IF x + y > 0 THEN 1 ELSE 0
                       [] op = "^" -> (x + y) % 2
                       [] op = "&" -> x * y
    IN  IF a \in {0, -1} /\ b \in {0, -1}
        THEN -bit(-a, -b)
        ELSE 2 * Bitwise(op, a \div 2, b \div 2) + bit(a % 2, b % 2)

\* floor division by a non-zero integer
FloorDiv(a, b) == IF b > 0 THEN a \div b ELSE (-a) \div (-b)

\* the functions of the operator module (Python 2), and the in-place
\* operators of integers, which compute the same
operator(f, a, b) ==
    IF f \in {"eq", "ne"}
    THEN PyInt(IF (a = b) = (f = "eq") THEN 1 ELSE 0)
    ELSE IF f \in {"lt", "le", "gt", "ge"}
    THEN \* Python 2 orders None before every integer
         LET x == IF a.k = "None" THEN <<0, 0>> ELSE <<1, a.v>>
             y == IF b.k = "None" THEN <<0, 0>> ELSE <<1, b.v>>
             lt == x[1] < y[1] \/ (x[1] = y[1] /\ x[2] < y[2])
             eq == x = y
         IN  PyInt(IF CASE f = "lt" -> lt
                        [] f = "le" -> lt \/ eq
                        [] f = "gt" -> ~lt /\ ~eq
                        [] f = "ge" -> ~lt
                   THEN 1 ELSE 0)
    ELSE IF a.k # "int" \/ b.k # "int"
    THEN PyRaise("TypeError")
    ELSE CASE f = "add" -> PyInt(a.v + b.v)
           [] f = "sub" -> PyInt(a.v - b.v)
           [] f = "mul" -> PyInt(a.v * b.v)
           [] f = "div" -> IF b.v = 0 THEN PyRaise("ZeroDivisionError")
                           ELSE PyInt(FloorDiv(a.v, b.v))
           [] f = "pow" -> IF b.v >= 0 THEN PyInt(Pow(a.v, b.v))
                           ELSE IF a.v = 0 THEN PyRaise("ZeroDivisionError")
                           ELSE PyRaise("float")
           [] f = "lshift" -> IF b.v < 0 THEN PyRaise("ValueError")
                              ELSE PyInt(a.v * Pow(2, b.v))
           [] f = "rshift" -> IF b.v < 0 THEN PyRaise("ValueError")
                              ELSE PyInt(a.v \div Pow(2, b.v))
           [] f = "or_" -> PyInt(Bitwise("|", a.v, b.v))
           [] f = "xor" -> PyInt(Bitwise("^", a.v, b.v))
           [] f = "and_" -> PyInt(Bitwise("&", a.v, b.v))

\* operator.neg(a), -(a)
neg(a) == IF a.k = "int" THEN PyInt(-a.v) ELSE PyRaise("TypeError")

\* ---- rd-parser-ebnf.py: expressions ----

\* The rules <bitor_expr> .. <term>, loosest first: the token types each one
\* loops on and the in-place operator it applies for each
\* (_bitand_expr applies ^= for '&').
ebnf_rules ==
    << [ops |-> {"|"},        f |-> [t \in {"|"} |-> "or_"]],
       [ops |-> {"^"},        f |-> [t \in {"^"} |-> "xor"]],
       [ops |-> {"&"},        f |-> [t \in {"&"} |-> "xor"]],
       [ops |-> {"<<", ">>"}, f |-> [t \in {"<<", ">>"} |->
                                       IF t = "<<" THEN "lshift" ELSE "rshift"]],
       [ops |-> {"+", "-"},   f |-> [t \in {"+", "-"} |->
                                       IF t = "+" THEN "add" ELSE "sub"]],
       [ops |-> {"*", "/"},   f |-> [t \in {"*", "/"} |->
                                       IF t = "*" THEN "mul" ELSE "div"]] >>

cmp_op_map ==
    [t \in {"==", "!=", ">=", "<=", ">", "<"} |->
        CASE t = "==" -> "eq" [] t = "!=" -> "ne" [] t = ">=" -> "ge"
          [] t = "<=" -> "le" [] t = ">" -> "gt" [] t = "<" -> "lt"]

\* self.var_table[id_name] unless only_syntax_check; KeyError gives ParseError
lookup(s) ==
    LET id_name == s.line[s.pos]
        n == get_next_token(s)
    IN  IF s.only_syntax_check THEN Ret(n, PyInt(0))
        ELSE IF id_name \in DOMAIN s.var_table
        THEN Ret(n, s.var_table[id_name])
        ELSE error(n)

\* self._match(')') after the call r gave the value between the brackets
closed(r) ==
    IF ~Ok(r) THEN r
    ELSE IF cur(r.s) = ")" THEN Ret(get_next_token(r.s), r.val)
    ELSE error(r.s)

\* the call r gave the operand of a unary minus
negated(r) == IF ~Ok(r) THEN r ELSE Ret(r.s, neg(r.val))

\* the call r gave the right operand of f, lval being the left one
applied(f, lval, r) ==
    IF ~Ok(r) THEN r ELSE Ret(r.s, operator(f, lval.val, r.val))

RECURSIVE cmp_expr(_), binary_expr(_, _), binary_loop(_, _), power(_),
          factor(_)

factor(s0) ==
    With(s0, LAMBDA s :
      CASE cur(s) = "(" ->
             With(cmp_expr(get_next_token(s)), LAMBDA r : closed(r))
        [] cur(s) = "NUMBER" ->
             Ret(get_next_token(s), PyInt(int(s.line[s.pos])))
        [] cur(s) = "-" ->
             With(factor(get_next_token(s)), LAMBDA r : negated(r))
        [] cur(s) = "IDENTIFIER" -> lookup(s)
        [] OTHER -> error(s))

power(s) ==
    With(factor(s), LAMBDA lval :
      IF ~Ok(lval) \/ cur(lval.s) # "**" THEN lval
      ELSE With(power(get_next_token(lval.s)),
                LAMBDA r : applied("pow", lval, r)))

\* the while loop of rule n, lv being the call that gave the left operand
binary_loop(n, lv) ==
    With(lv, LAMBDA lval :
      IF ~Ok(lval) \/ cur(lval.s) \notin ebnf_rules[n].ops THEN lval
      ELSE With(binary_expr(n + 1, get_next_token(lval.s)), LAMBDA r :
             IF ~Ok(r) THEN r
             ELSE binary_loop(n, applied(ebnf_rules[n].f[cur(lval.s)],
                                         lval, r))))

\* _bitor_expr (n = 1) .. _term (n = 6), then _power
binary_expr(n, s) ==
    IF n > Len(ebnf_rules) THEN power(s)
    ELSE binary_loop(n, binary_expr(n + 1, s))

cmp_expr(s) ==
    With(binary_expr(1, s), LAMBDA lval :
      IF ~Ok(lval) \/ cur(lval.s) \notin DOMAIN cmp_op_map THEN lval
      ELSE With(binary_expr(1, get_next_token(lval.s)),
                LAMBDA r : applied(cmp_op_map[cur(lval.s)], lval, r)))

\* ---- rd-parser-precedence-climbing.py: expressions ----

\* _ops: the function, the precedence and the associativity of each binary
\* operator ('&' is operator.add); the unary minus 'u-' has precedence 90
ops ==
    [t \in {"**", "*", "/", "+", "-", "<<", ">>", "&", "^", "|",
            ">", ">=", "<", "<=", "==", "!="} |->
        CASE t = "**" -> [op |-> "pow", prec |-> 70, right_assoc |-> TRUE]
          [] t = "*"  -> [op |-> "mul", prec |-> 50, right_assoc |-> FALSE]
          [] t = "/"  -> [op |-> "div", prec |-> 50, right_assoc |-> FALSE]
          [] t = "+"  -> [op |-> "add", prec |-> 40, right_assoc |-> FALSE]
          [] t = "-"  -> [op |-> "sub", prec |-> 40, right_assoc |-> FALSE]
          [] t = "<<" -> [op |-> "lshift", prec |-> 35, right_assoc |-> FALSE]
          [] t = ">>" -> [op |-> "rshift", prec |-> 35, right_assoc |-> FALSE]
          [] t = "&"  -> [op |-> "add", prec |-> 30, right_assoc |-> FALSE]
          [] t = "^"  -> [op |-> "xor", prec |-> 29, right_assoc |-> FALSE]
          [] t = "|"  -> [op |-> "or_", prec |-> 28, right_assoc |-> FALSE]
          [] t = ">"  -> [op |-> "gt", prec |-> 20, right_assoc |-> FALSE]
          [] t = ">=" -> [op |-> "ge", prec |-> 20, right_assoc |-> FALSE]
          [] t = "<"  -> [op |-> "lt", prec |-> 20, right_assoc |-> FALSE]
          [] t = "<=" -> [op |-> "le", prec |-> 20, right_assoc |-> FALSE]
          [] t = "==" -> [op |-> "eq", prec |-> 15, right_assoc |-> FALSE]
          [] t = "!=" -> [op |-> "ne", prec |-> 15, right_assoc |-> FALSE]]

unary_prec == 90

RECURSIVE infix_eval_expr(_, _), infix_eval_loop(_, _), infix_eval_atom(_)

\* a token that is no atom makes _infix_eval_atom fall off its end: it
\* returns None and consumes nothing
infix_eval_atom(s0) ==
    With(s0, LAMBDA s :
      CASE cur(s) = "NUMBER" ->
             Ret(get_next_token(s), PyInt(int(s.line[s.pos])))
        [] cur(s) = "IDENTIFIER" -> lookup(s)
        [] cur(s) = "(" ->
             With(infix_eval_expr(0, get_next_token(s)), LAMBDA r : closed(r))
        [] cur(s) = "-" ->
             With(infix_eval_expr(unary_prec, get_next_token(s)),
                  LAMBDA r : negated(r))
        [] OTHER -> Ret(s, PyNone))

\* the while loop of _infix_eval_expr(prec)
infix_eval_loop(prec, lv) ==
    With(lv, LAMBDA lval :
      IF ~Ok(lval) \/ cur(lval.s) \notin DOMAIN ops THEN lval
      ELSE LET op == ops[cur(lval.s)]
               nprec == IF op.right_assoc THEN op.prec ELSE op.prec + 1
           IN  IF op.prec < prec THEN lval
               ELSE With(infix_eval_expr(nprec, get_next_token(lval.s)),
                         LAMBDA r :
                           IF ~Ok(r) THEN r
                           ELSE infix_eval_loop(prec, applied(op.op, lval, r))))

infix_eval_expr(prec, s) == infix_eval_loop(prec, infix_eval_atom(s))

\* ---- both calculators: statements ----
\* The methods calc, _stmt, _if_stmt, _assign_stmt, _syntax_check are the same
\* text in the two files but for the expression method they call; c names
\* the file: "ebnf" or "climbing".

\* the expression of a statement: _cmp_expr() there, _infix_expr() here
expr(c, s) == IF c = "ebnf" THEN cmp_expr(s) ELSE infix_eval_expr(0, s)

\* the condition of an if: self._cmp_expr() in both files; the class of
\* rd-parser-precedence-climbing.py has no such method
condition(c, s) ==
    IF c = "ebnf" THEN cmp_expr(s) ELSE Ret(s, PyRaise("AttributeError"))

\* with self._syntax_check(): the flag is set on entry.  untaken counts the
\* with blocks being executed: the branches not taken that enclose the
\* current token.
syntax_check_enter(s) ==
    [s EXCEPT !.only_syntax_check = TRUE, !.untaken = @ + 1]

\* the finally clause: the flag is cleared, whether the body raised or not
syntax_check_exit(r) ==
    [r EXCEPT !.s.only_syntax_check = FALSE, !.s.untaken = @ - 1]

\* self.var_table[id_name] = expr_val, unless only_syntax_check; v is the
\* call that gave expr_val
assigned(id_name, v) ==
    IF ~Ok(v) \/ v.s.only_syntax_check THEN v
    ELSE Ret([v.s EXCEPT
                !.var_table = [n \in DOMAIN @ \cup {id_name} |->
                                 IF n = id_name THEN v.val ELSE @[n]],
                !.writes = @ \cup {[id |-> id_name, untaken |-> v.s.untaken]}],
             v.val)

RECURSIVE stmt(_, _), if_stmt(_, _)

assign_stmt(c, s) ==
    With(match(get_next_token(s), "IDENTIFIER"), LAMBDA id :
      IF ~Ok(id) THEN id
      ELSE With(match(id.s, "="), LAMBDA eq :
             IF ~Ok(eq) THEN eq
             ELSE With(expr(c, eq.s),
                       LAMBDA v : assigned(s.line[s.pos + 1], v))))

\* the rest of _if_stmt, then being the call self._match('THEN') and cond
\* the value of the condition
if_branches(c, cond, then) ==
    IF ~Ok(then) THEN then
    ELSE IF Truthy(cond)
    THEN With(stmt(c, then.s), LAMBDA result :
           IF ~Ok(result) \/ cur(result.s) # "ELSE" THEN result
           ELSE With(syntax_check_exit(
                       stmt(c, syntax_check_enter(get_next_token(result.s)))),
                     LAMBDA e : IF ~Ok(e) THEN e ELSE Ret(e.s, result.val)))
    ELSE With(syntax_check_exit(stmt(c, syntax_check_enter(then.s))),
              LAMBDA t :
                IF ~Ok(t) THEN t
                ELSE IF cur(t.s) = "ELSE" THEN stmt(c, get_next_token(t.s))
                ELSE Ret(t.s, PyNone))

if_stmt(c, s) ==
    With(condition(c, get_next_token(s)), LAMBDA cond :
      IF ~Ok(cond) THEN cond
      ELSE With(match(cond.s, "THEN"),
                LAMBDA then : if_branches(c, cond.val, then)))

stmt(c, s0) ==
    With(s0, LAMBDA s :
      CASE cur(s) = NoType -> Ret(s, PyEmpty)
        [] cur(s) = "SET" -> assign_stmt(c, s)
        [] cur(s) = "IF" -> if_stmt(c, s)
        [] OTHER -> expr(c, s))

\* cp.calc(line), cp being a CalcParser of file c: the state the call ends in
\* and the value it returns.  writes is the history of the call: the
\* assignments it made, each with the number of untaken branches around it.
calc(c, cp, line) ==
    With(stmt(c, [line |-> line, pos |-> 1, var_table |-> cp.var_table,
                  only_syntax_check |-> cp.only_syntax_check,
                  err |-> "", untaken |-> 0, writes |-> {}]),
         LAMBDA val :
           IF Ok(val) /\ cur(val.s) # NoType THEN error(val.s) ELSE val)

\* a CalcParser after __init__ (_clear), no call of calc made yet
CalcParser ==
    [var_table |-> [n \in {} |-> PyNone], only_syntax_check |-> FALSE,
     err |-> "", val |-> PyEmpty, writes |-> {}]

\* The two calculators before any line: calls counts the lines given so far,
\* same tells whether the two var_tables were equal when the last one was
\* given, before is the var_table the EBNF calculator had then.
NoCalcs ==
    [line |-> <<>>, calls |-> 0, same |-> TRUE, before |-> CalcParser.var_table,
     ebnf |-> CalcParser, climbing |-> CalcParser]

\* A thread that has not called parse().  bound tells whether the global next
\* is bound to the generator this thread made; switches counts the context
\* switches so far.
NoThread ==
    [program |-> <<>>, stack |-> <<>>, outcome |-> Idle, bound |-> FALSE,
     switches |-> 0]

\* The state once the module is loaded and before parse() is called.
Init ==
    /\ registry = Grammar
    /\ passed = [x \in {} |-> {}]
    /\ program = <<>>
    /\ gen = [pos |-> 0, state |-> "finished"]
    /\ token = 0
    /\ heap = <<>>
    /\ stack = <<>>
    /\ outcome = Idle
    /\ log = <<>>
    /\ suspended = NoThread
    /\ calcs = NoCalcs

\* parse(program): next = tokenize(program).next; token = next();
\* return expression()
ParseOf(S) ==
    /\ outcome.status = "idle"
    /\ \E p \in S :
         \E n \in {next(p, registry, NewGen, heap, token)} :
           /\ program' = p
           /\ gen' = n.gen
           /\ heap' = n.heap
           /\ token' = n.tok
           /\ IF n.exc # NoExc
              THEN /\ stack' = <<>>
                   /\ outcome' = [status |-> "raised", value |-> 0, exc |-> n.exc]
                   /\ log' = log \o n.ev
              ELSE /\ stack' = <<Frame("expression", "start", 0, 0, 0)>>
                   /\ outcome' = [status |-> "running", value |-> 0, exc |-> NoExc]
                   /\ log' = log \o n.ev \o <<Ev("expression", 0)>>
    /\ suspended' = [suspended EXCEPT !.bound = FALSE]
    /\ UNCHANGED <<registry, passed, calcs>>

parse == ParseOf(Programs)

Next ==
    \/ parse
    \/ ExprStart \/ ExprNud \/ ExprLoop \/ ExprLed
    \/ BaseNud \/ BaseLed \/ SelfNud
    \/ InfixLed \/ PrefixNud \/ InfixRLed
    \/ IfLed \/ DotLed \/ IndexLed \/ CallLed
    \/ LambdaNud \/ argument_list \/ ConstantNud
    \/ NotInLed \/ IsLed
    \/ TupleNud \/ ListNud \/ DictNud

Spec == Init /\ [][Next]_vars

\* A step of a parse() that has been called.
Step ==
    \/ ExprStart \/ ExprNud \/ ExprLoop \/ ExprLed
    \/ BaseNud \/ BaseLed \/ SelfNud
    \/ InfixLed \/ PrefixNud \/ InfixRLed
    \/ IfLed \/ DotLed \/ IndexLed \/ CallLed
    \/ LambdaNud \/ argument_list \/ ConstantNud
    \/ NotInLed \/ IsLed
    \/ TupleNud \/ ListNud \/ DictNud

\* Once parse() has been called the interpreter keeps executing it: a step
\* that can be taken is taken.  Nothing obliges anyone to call parse().
SpecLive == Init /\ [][Next]_vars /\ WF_vars(Step)

(***************************************************************************)
(* The token adapter on its own: the generator tokenize(program) is        *)
(* created and then resumed until it is exhausted or raises, as            *)
(* list(tokenize(program)) does; for pratt-rd-parser-py.py and for         *)
(* pratt-rd-parser-2.py.                                                   *)
(***************************************************************************)

\* what token_pat finds in a program of pratt-rd-parser-2.py
Lex2(t) == Raw(IF t \in Numbers THEN "NUMBER" ELSE "OP", t)

Alphabet2 == {"1", "2", "+", "-", "*", "/", "**", "a", "(", " "}

RECURSIVE Words2(_)
Words2(n) ==
    IF n = 0 THEN { <<>> }
    ELSE { <<x>> \o w : x \in Alphabet2, w \in Words2(n - 1) }

Programs2 ==
    { [i \in DOMAIN s |-> Lex2(s[i])] : s \in UNION { Words2(n) : n \in 0..MaxLen } }

InitTok ==
    /\ registry \in {Grammar, Grammar2}
    /\ passed = [x \in {} |-> {}]
    /\ program = <<>>
    /\ gen = [pos |-> 0, state |-> "finished"]
    /\ token = 0
    /\ heap = <<>>
    /\ stack = <<>>
    /\ outcome = Idle
    /\ log = <<>>
    /\ suspended = NoThread
    /\ calcs = NoCalcs

\* g = tokenize(program): the generator is created, nothing of it runs yet
StartStream ==
    /\ outcome.status = "idle"
    /\ \E p \in IF registry = Grammar2 THEN Programs2 ELSE Programs :
         program' = p
    /\ gen' = NewGen
    /\ outcome' = [status |-> "running", value |-> 0, exc |-> NoExc]
    /\ UNCHANGED <<registry, passed, token, heap, stack, log, suspended, calcs>>

\* the stream after one more g.next(), whose result is n
Pulled(n) ==
    /\ gen' = n.gen
    /\ heap' = n.heap
    /\ log' = log \o n.ev
    /\ outcome' = IF n.exc # NoExc
                  THEN [status |-> "raised", value |-> 0, exc |-> n.exc]
                  ELSE outcome
    /\ UNCHANGED <<registry, passed, program, token, stack, suspended, calcs>>

Pull ==
    /\ outcome.status = "running" /\ registry = Grammar
    /\ \E n \in {next(program, registry, gen, heap, token)} : Pulled(n)

Pull2 ==
    /\ outcome.status = "running" /\ registry = Grammar2
    /\ \E n \in {next2(program, registry, gen, heap, token)} : Pulled(n)

NextTok == StartStream \/ Pull \/ Pull2

SpecTok == InitTok /\ [][NextTok]_vars

(***************************************************************************)
(* Two threads, each calling parse() once.  The globals token and next     *)
(* (and the registry) belong to the module, so both threads use them; a    *)
(* thread's program, call stack and result are its own.  One thread runs   *)
(* at a time; a context switch exchanges the running thread with the       *)
(* suspended one and leaves the globals as they are.                       *)
(***************************************************************************)

MaxSwitches == 2

ParPrograms ==
    { P(s) : s \in { <<"1", "+", "a">>, <<"a", "*", "1">>, <<"a">> } }

parse_in_thread == ParseOf(ParPrograms)

\* the interpreter suspends the running thread and resumes the other
Switch ==
    /\ suspended.switches < MaxSwitches
    /\ program' = suspended.program
    /\ stack' = suspended.stack
    /\ outcome' = suspended.outcome
    /\ suspended' = [program |-> program, stack |-> stack, outcome |-> outcome,
                     bound |-> ~suspended.bound,
                     switches |-> suspended.switches + 1]
    /\ UNCHANGED <<registry, passed, gen, token, heap, log, calcs>>

\* The steps these programs can reach, in any interleaving (ParReach).
NextPar ==
    \/ parse_in_thread \/ Switch
    \/ ExprStart \/ ExprNud \/ ExprLoop \/ ExprLed
    \/ BaseNud \/ SelfNud \/ InfixLed \/ PrefixNud

SpecPar == Init /\ [][NextPar]_vars

(***************************************************************************)
(* One caller, several parses: parse() is called again once the previous   *)
(* call has returned or raised.  The instances of earlier parses stay in    *)
(* the heap, the globals token and next keep what the last parse left.     *)
(***************************************************************************)
MaxParses == 3

SeqPrograms ==
    { P(s) : s \in { <<"1", "+", "a">>, <<"a">>, <<"(", "a">>, <<"(", "a", ")">>,
                     <<"1", "@", "2">>, <<"@">>, <<"1", ")">>, <<>>, <<"*", "a">>,
                     <<"(", "a", ",", ")">>, <<"-", "a", "**", "1">> } }

\* parse(program), the generator being g when next = tokenize(program).next
\* has been executed.  The log notes the call and the size of the heap then.
ParseAgain(g) ==
    /\ outcome.status \in {"idle", "returned", "raised"}
    /\ Cardinality({k \in DOMAIN log : log[k].ev = "parse"}) < MaxParses
    /\ \E p \in SeqPrograms :
         \E n \in {next(p, registry, g, heap, token)} :
           /\ program' = p
           /\ gen' = n.gen
           /\ heap' = n.heap
           /\ token' = n.tok
           /\ IF n.exc # NoExc
              THEN /\ stack' = <<>>
                   /\ outcome' = [status |-> "raised", value |-> 0, exc |-> n.exc]
                   /\ log' = log \o <<Ev("parse", Len(heap))>> \o n.ev
              ELSE /\ stack' = <<Frame("expression", "start", 0, 0, 0)>>
                   /\ outcome' = [status |-> "running", value |-> 0, exc |-> NoExc]
                   /\ log' = log \o <<Ev("parse", Len(heap))>> \o n.ev
                                 \o <<Ev("expression", 0)>>
    /\ suspended' = [suspended EXCEPT !.bound = FALSE]
    /\ UNCHANGED <<registry, passed, calcs>>

\* a parse() that goes on with the generator the previous call left
parse_again_mutant_stale_generator == ParseAgain(gen)

parse_again == ParseAgain(NewGen)

\* the functions these programs bring into play
NextSeq ==
    \/ parse_again
    \/ ExprStart \/ ExprNud \/ ExprLoop \/ ExprLed
    \/ BaseNud \/ SelfNud \/ InfixLed \/ PrefixNud \/ InfixRLed \/ TupleNud

SpecSeq == Init /\ [][NextSeq]_vars

(***************************************************************************)
(* The calculator prompt: lines given to both calculators.                 *)
(***************************************************************************)
MaxCalls == 2

MaxVal == 2

CalcIds == {"x", "y"}

AllBinary == DOMAIN ops

SetLines ==
    {<<"set", v, "=", n>> : v \in CalcIds, n \in {"0", "1", "2", "3"}}
    \cup {<<"set", "x", "=", "x", "+", "1">>, <<"set", "x", "=", "-", "x">>,
          <<"set", "y", "=", "x">>, <<"set", "x", "=", "1", "&", "1">>,
          <<"set", "x", "=", "1", "<", "2">>}

BinaryLines == {<<a, o, b>> : a \in {"2", "x"}, o \in AllBinary, b \in {"1", "x"}}

TripleLines ==
    {<<"2", o1, "3", o2, "2">> :
        o1, o2 \in {"+", "-", "*", "**", "&", "|", "<", "=="}}

UnaryLines ==
    {<<"-", "2">>, <<"-", "x">>, <<"-", "2", "**", "2">>, <<"-", "-", "1">>,
     <<"2", "-", "-", "1">>, <<"2", "*", "-", "1">>, <<"2", "**", "-", "1">>,
     <<"-", "(", "1", "+", "2", ")">>, <<"-", "2", "+", "1">>}

ParenLines ==
    {<<"(", "1", "+", "2", ")", "*", "2">>, <<"2", "*", "(", "1", "+", "2", ")">>,
     <<"(", "(", "1", ")", ")">>, <<"(", "1", "<", "2", ")", "<", "2">>,
     <<"(", ")">>, <<"(", "1">>, <<"1", ")">>}

BadLines ==
    {<<>>, <<"set", "x", "=">>, <<"set", "=", "1">>, <<"set", "1", "=", "1">>,
     <<"set", "x", "1">>, <<"1", "+">>, <<"+">>, <<"*", "1">>, <<"1", "1">>,
     <<"else">>, <<"then">>, <<"if", "1">>, <<"if", "1", "then">>,
     <<"if", "then", "1">>, <<"x", "=", "1">>, <<"set", "x", "=", "1", ")">>,
     <<"set", "x", "=", "1", "1">>}

Conditions == {<<"0">>, <<"1">>, <<"x">>}

SimpleStmts ==
    {<<"set", "x", "=", "1">>, <<"set", "y", "=", "2">>, <<"1">>, <<"y">>}

Assignments == {<<"set", "x", "=", "1">>, <<"set", "y", "=", "2">>}

If(c, t) == <<"if">> \o c \o <<"then">> \o t

IfElse(c, t, e) == If(c, t) \o <<"else">> \o e

IfLines ==
    {If(c, t) : c \in Conditions, t \in SimpleStmts}
    \cup {IfElse(c, t, e) : c \in Conditions, t \in SimpleStmts, e \in SimpleStmts}

\* an if inside a branch of an if; an else goes with the innermost if
NestedLines ==
    LET C == {<<"0">>, <<"1">>}
        T == {<<"1">>, <<"set", "x", "=", "1">>}
    IN  {If(c1, IfElse(c2, t, e)) : c1 \in C, c2 \in C, t \in T, e \in Assignments}
        \cup {IfElse(c1, IfElse(c2, t, e), e2) :
                 c1 \in C, c2 \in C, t \in T, e \in Assignments, e2 \in Assignments}
        \cup {IfElse(c1, t, IfElse(c2, e, e2)) :
                 c1 \in C, c2 \in C, t \in T, e \in Assignments, e2 \in Assignments}
        \cup {If(c1, If(c2, IfElse(c3, <<"1">>, e))) :
                 c1 \in C, c2 \in C, c3 \in C, e \in Assignments}

Lines ==
    SetLines \cup BinaryLines \cup TripleLines \cup UnaryLines \cup ParenLines
    \cup BadLines \cup IfLines \cup NestedLines

\* the values a var_table may hold in the model
InRange(var_table) ==
    \A n \in DOMAIN var_table :
        var_table[n].k = "int" => var_table[n].v \in -MaxVal..MaxVal

\* the calculator object after the call r of calc, with the call's outcome
AfterCalc(r) ==
    [var_table |-> r.s.var_table, only_syntax_check |-> r.s.only_syntax_check,
     err |-> r.s.err, val |-> r.val, writes |-> r.s.writes]

\* print(cp.calc(line)), the same line given to a calculator of each file
calc_line ==
    /\ calcs.calls < MaxCalls
    /\ \E line \in Lines :
         \E e \in {calc("ebnf", calcs.ebnf, line)},
            p \in {calc("climbing", calcs.climbing, line)} :
           /\ e.s.err # "float" /\ p.s.err # "float"
           /\ InRange(e.s.var_table) /\ InRange(p.s.var_table)
           /\ calcs' = [line |-> line, calls |-> calcs.calls + 1,
                        same |-> calcs.ebnf.var_table = calcs.climbing.var_table,
                        before |-> calcs.ebnf.var_table,
                        ebnf |-> AfterCalc(e), climbing |-> AfterCalc(p)]
    /\ UNCHANGED <<registry, passed, program, gen, token, heap, stack, outcome,
                   log, suspended>>

NextCalc == calc_line

SpecCalc == Init /\ [][NextCalc]_vars

Done == outcome.status \in {"returned", "raised"}

(***************************************************************************)
(* The registry on its own: any sequence of registration calls, starting   *)
(* from the empty symbol_table.  passed records every binding power a call *)
(* passed to symbol(), log holds the latest call of symbol().              *)
(***************************************************************************)

MaxBp == 1

Bps == 0..MaxBp

RegIds == {"+", "x"}

InitReg ==
    /\ registry = EmptyRegistry
    /\ passed = [x \in {} |-> {}]
    /\ program = <<>>
    /\ gen = [pos |-> 0, state |-> "finished"]
    /\ token = 0
    /\ heap = <<>>
    /\ stack = <<>>
    /\ outcome = Idle
    /\ log = <<>>
    /\ suspended = NoThread
    /\ calcs = NoCalcs

\* the registration statement c is executed
Registration(c) ==
    /\ registry' = Register(registry, c)
    /\ passed' = IF c.id \in DOMAIN passed
                 THEN [passed EXCEPT ![c.id] = @ \cup {PassedBp(c)}]
                 ELSE passed @@ (c.id :> {PassedBp(c)})
    /\ log' = <<Sym(c.id, PassedBp(c))>>
    /\ UNCHANGED <<program, gen, token, heap, stack, outcome, suspended, calcs>>

RegSymbol == \E id \in RegIds, bp \in Bps : Registration(Sym(id, bp))

RegInfix == \E id \in RegIds, bp \in Bps : Registration(Inf(id, bp))

RegInfixR == \E id \in RegIds, bp \in Bps : Registration(InfR(id, bp))

RegPrefix == \E id \in RegIds, bp \in Bps : Registration(Pre(id, bp))

RegConstant == \E id \in RegIds : Registration(Con(id))

RegMethod ==
    \E id \in RegIds, bp \in Bps :
      \/ Registration(Nud(id, bp, "method"))
      \/ Registration(Led(id, bp, "method"))

NextReg ==
    \/ RegSymbol \/ RegInfix \/ RegInfixR
    \/ RegPrefix \/ RegConstant \/ RegMethod

SpecReg == InitReg /\ [][NextReg]_vars

(***************************************************************************)
(* Reading programs and trees                                              *)
(***************************************************************************)

Registered(text) == text \in DOMAIN registry.symbol_table

Class(text) == registry.classes[registry.symbol_table[text]]

\* A raw token the adapter turns into an atom: a literal, a name that is no
\* keyword, or one of the constants None, True, False.
IsAtom(r) ==
    \/ r.kind \in {"NUMBER", "STRING"}
    \/ r.kind = "NAME" /\ ~Registered(r.text)
    \/ r.kind = "NAME" /\ Registered(r.text) /\ Class(r.text).nud.kind = "constant"

\* A raw token that is a one-word binary operator: registered with infix()
\* or infix_r(), or the keyword `is`.
IsBinary(r) ==
    /\ r.kind \in {"OP", "NAME"}
    /\ Registered(r.text)
    /\ Class(r.text).led.kind \in {"infix", "infix_r", "is"}

\* Instance i is the atom made of raw token r, with no children.
Leaf(i, r) ==
    /\ i \in DOMAIN heap
    /\ heap[i].id = (IF r.kind = "NAME" /\ ~Registered(r.text)
                     THEN "(name)" ELSE "(literal)")
    /\ heap[i].value = r.text
    /\ heap[i].first = None /\ heap[i].second = None /\ heap[i].third = None

\* Instance i is a two-child node with the given id and children.
Bin(i, id, l, r) ==
    /\ i \in DOMAIN heap
    /\ heap[i].id = id
    /\ heap[i].first = Node(l) /\ heap[i].second = Node(r)
    /\ heap[i].third = None

ReturnedNode(i) == outcome.status = "returned" /\ outcome.value = i

\* program is  a OP1 b OP2 c  with atoms a, b, c and one-word binary operators
ThreeOperands ==
    /\ Len(program) = 5
    /\ IsAtom(program[1]) /\ IsAtom(program[3]) /\ IsAtom(program[5])
    /\ IsBinary(program[2]) /\ IsBinary(program[4])

\* the tree ((a OP1 b) OP2 c) of such a program
NestsLeft ==
    /\ ReturnedNode(4)
    /\ Bin(4, program[4].text, 2, 5)
    /\ Bin(2, program[2].text, 1, 3)
    /\ Leaf(1, program[1]) /\ Leaf(3, program[3]) /\ Leaf(5, program[5])

\* the tree (a OP1 (b OP2 c)) of such a program
NestsRight ==
    /\ ReturnedNode(2)
    /\ Bin(2, program[2].text, 1, 4)
    /\ Bin(4, program[4].text, 3, 5)
    /\ Leaf(1, program[1]) /\ Leaf(3, program[3]) /\ Leaf(5, program[5])

\* C1: two operators registered with infix() at the same binding power
\* nest to the left: parse("a OP1 b OP2 c") returns the OP2 node whose
\* first child is (OP1 a b) and whose second child is c.
C1_SamePowerInfix ==
    /\ ThreeOperands
    /\ Class(program[2].text).led.kind = "infix"
    /\ Class(program[4].text).led.kind = "infix"
    /\ Class(program[2].text).led.bp = Class(program[4].text).led.bp

C1_EqualPrecedenceNestsLeft == (Done /\ C1_SamePowerInfix) => NestsLeft

C1_Witness ==
    /\ Done /\ C1_SamePowerInfix /\ NestsLeft
    /\ program[2].text = "-" /\ program[4].text = "+"

\* C2: a chain of n >= 2 operands joined by one operator registered with
\* infix_r (the power operator **) nests entirely to the right:
\* a ** b ** c is (** a (** b c)); each right operand is parsed by
\* expression(bp - 1).
C2_Chain ==
    /\ Len(program) >= 5 /\ Len(program) % 2 = 1
    /\ \A i \in DOMAIN program :
         IF i % 2 = 1 THEN IsAtom(program[i])
         ELSE /\ program[i] = program[2]
              /\ IsBinary(program[i])
              /\ Class(program[i].text).led.kind = "infix_r"

\* how many calls expression(rbp) the log holds
Entered(rbp) == Cardinality({ k \in DOMAIN log : log[k] = Ev("expression", rbp) })

C2_PowerNestsRight ==
    (Done /\ C2_Chain) =>
        /\ ReturnedNode(2)
        /\ \A i \in DOMAIN program :
             IF i % 2 = 1 THEN Leaf(i, program[i])
             ELSE Bin(i, program[i].text, i - 1,
                      IF i + 1 = Len(program) THEN i + 1 ELSE i + 2)
        /\ Entered(Class(program[2].text).lbp - 1) = (Len(program) - 1) \div 2

C2_Witness ==
    /\ Done /\ C2_Chain /\ ReturnedNode(2)
    /\ program[2].text = "**" /\ Len(program) = 7
    /\ heap[2].second = Node(4) /\ heap[4].second = Node(6)

\* C3: for binary operators LO, HI with lbp(LO) < lbp(HI),
\* parse("a LO b HI c") returns (LO a (HI b c)) and
\* parse("a HI b LO c") returns (LO (HI a b) c).
C3_LowThenHigh ==
    ThreeOperands /\ Class(program[2].text).lbp < Class(program[4].text).lbp

C3_HighThenLow ==
    ThreeOperands /\ Class(program[2].text).lbp > Class(program[4].text).lbp

C3_HigherBindsTighter ==
    /\ (Done /\ C3_LowThenHigh) => NestsRight
    /\ (Done /\ C3_HighThenLow) => NestsLeft

C3_Witness ==
    /\ Done /\ C3_LowThenHigh /\ NestsRight
    /\ program = P(<<"1", "+", "'s'", "*", "None">>)

\* A raw token that ends an operand: one the adapter accepts and whose
\* left binding power is 0.
EndsOperand(r) ==
    \/ IsAtom(r)
    \/ r.kind \in {"OP", "NAME"} /\ Registered(r.text) /\ Class(r.text).lbp = 0

\* program is  ( a OP1 b ) OP2 c
C4_Grouped ==
    /\ Len(program) = 7
    /\ program[1] = Lex("(") /\ program[5] = Lex(")")
    /\ IsAtom(program[2]) /\ IsAtom(program[4]) /\ IsAtom(program[7])
    /\ IsBinary(program[3]) /\ IsBinary(program[6])

\* the tree (OP2 (OP1 a b) c) of such a program
C4_GroupTree ==
    /\ ReturnedNode(6)
    /\ Bin(6, program[6].text, 3, 7)
    /\ Bin(3, program[3].text, 2, 4)
    /\ Leaf(2, program[2]) /\ Leaf(4, program[4]) /\ Leaf(7, program[7])

\* program is  ( a OP1 b  and then the end of the input
C4_UnclosedAtEnd ==
    /\ Len(program) = 4
    /\ program[1] = Lex("(")
    /\ IsAtom(program[2]) /\ IsBinary(program[3]) /\ IsAtom(program[4])

\* program is  ( a OP1 b  and then a token that ends the operand b and is
\* neither the closing parenthesis nor a comma
C4_UnclosedBeforeToken ==
    /\ Len(program) >= 5
    /\ program[1] = Lex("(")
    /\ IsAtom(program[2]) /\ IsBinary(program[3]) /\ IsAtom(program[4])
    /\ EndsOperand(program[5])
    /\ program[5].text \notin {")", ","}

ExpectedError(id) == Exc("SyntaxError", "Expected", id, "advance")

Raised(e) == outcome.status = "raised" /\ outcome.exc = e

\* C4: a parenthesised sub-expression is parsed as a unit, whatever the
\* binding powers around it: parse("(a OP1 b) OP2 c") returns the OP2 node
\* whose first child is (OP1 a b) and whose second child is c; and if the
\* closing parenthesis is missing the parse fails with the expected-token
\* error of advance(")").
C4_GroupingAndMissingCloser ==
    /\ (Done /\ C4_Grouped) => C4_GroupTree
    /\ (Done /\ (C4_UnclosedAtEnd \/ C4_UnclosedBeforeToken)) =>
           Raised(ExpectedError(")"))

\* C4, the part the code keeps: the grouping, and the expected-token error
\* when another token stands where the closing parenthesis should be.
C4_GroupingOverridesPrecedence ==
    /\ (Done /\ C4_Grouped) => C4_GroupTree
    /\ (Done /\ C4_UnclosedBeforeToken) => Raised(ExpectedError(")"))

C4_GroupingWitness ==
    /\ Done /\ C4_Grouped /\ C4_GroupTree
    /\ Class(program[3].text).lbp < Class(program[6].text).lbp

\* C4, what the code does at the end of the input instead: the tokenizer
\* raises its own error when the engine asks for the token after b.
C4_UnclosedAtEndRaisesTokenError ==
    (Done /\ C4_UnclosedAtEnd) =>
        /\ outcome.status = "raised"
        /\ outcome.exc.type = "TokenError"

C4_TokenErrorWitness ==
    /\ Done /\ C4_UnclosedAtEnd
    /\ outcome.exc.type = "TokenError"
    /\ stack = <<>>

\* Collections without nested brackets: program is an opener, elements that
\* are an atom or  atom OP atom, separators, and the closer.
ElemLen(s) == IF IsBinary(program[s + 1]) THEN 3 ELSE 1

IsElement(s) ==
    /\ s + ElemLen(s) <= Len(program)
    /\ IsAtom(program[s])
    /\ ElemLen(s) = 3 => IsAtom(program[s + 2])

ElemRoot(s) == IF ElemLen(s) = 3 THEN s + 1 ELSE s

ElemTree(s) ==
    IF ElemLen(s) = 3
    THEN /\ Bin(s + 1, program[s + 1].text, s, s + 2)
         /\ Leaf(s, program[s]) /\ Leaf(s + 2, program[s + 2])
    ELSE Leaf(s, program[s])

Separators == {",", ":"}

RECURSIVE ElemStarts(_)
\* where the elements start, from position s (an element or the closer) on;
\* 0 marks a place where neither an element nor a separator stands
ElemStarts(s) ==
    IF s >= Len(program) THEN <<>>
    ELSE IF ~IsElement(s) THEN <<0>>
    ELSE IF s + ElemLen(s) = Len(program) THEN <<s>>
    ELSE IF program[s + ElemLen(s)].text \in Separators
    THEN <<s>> \o ElemStarts(s + ElemLen(s) + 1)
    ELSE <<0>>

Starts == ElemStarts(2)

\* the separator after the j-th element, "" if the closer follows it
SepAfter(j) ==
    IF Starts[j] + ElemLen(Starts[j]) = Len(program) THEN ""
    ELSE program[Starts[j] + ElemLen(Starts[j])].text

Collection(open, close) ==
    /\ Len(program) >= 2
    /\ program[1] = Lex(open) /\ program[Len(program)] = Lex(close)
    /\ \A i \in 2..(Len(program) - 1) :
         program[i].text \notin Openers \cup Closers
    /\ \A j \in DOMAIN Starts : Starts[j] # 0

\* elements separated by commas, the last perhaps followed by one
CommaSeparated == \A j \in DOMAIN Starts : SepAfter(j) \in {",", ""}

\* key : value pairs separated by commas
PairsSeparated ==
    /\ Len(Starts) % 2 = 0
    /\ \A j \in DOMAIN Starts :
         IF j % 2 = 1 THEN SepAfter(j) = ":" ELSE SepAfter(j) \in {",", ""}

HasComma == \E j \in DOMAIN Starts : SepAfter(j) = ","

\* the element roots in source order
Roots == [j \in DOMAIN Starts |-> ElemRoot(Starts[j])]

\* the opener's node is returned, holding the elements in first
ReturnsCollection(id) ==
    /\ ReturnedNode(1)
    /\ heap[1].id = id
    /\ heap[1].first = List(Roots)
    /\ heap[1].second = None /\ heap[1].third = None
    /\ \A j \in DOMAIN Starts : ElemTree(Starts[j])
    /\ Entered(0) = 1 + Len(Starts)

\* C5: the prefix behaviours of ( [ { collect the comma-separated
\* expression(0) elements in source order up to the matching closer (for {
\* alternating key : value); a ( form with exactly one element and no comma
\* returns that element's own node, while () and every ( form with a comma,
\* (e,) included, return the ( node with the element list in first.
C5_CollectionsInSourceOrder ==
    /\ (Done /\ Collection("(", ")") /\ CommaSeparated) =>
           IF Len(Starts) = 1 /\ ~HasComma
           THEN ReturnedNode(Roots[1]) /\ ElemTree(Starts[1]) /\ Entered(0) = 2
           ELSE ReturnsCollection("(")
    /\ (Done /\ Collection("[", "]") /\ CommaSeparated) => ReturnsCollection("[")
    /\ (Done /\ Collection("{", "}") /\ PairsSeparated) => ReturnsCollection("{")

\* (e,) is a tuple of one element
C5_Witness ==
    /\ Done /\ Collection("(", ")") /\ CommaSeparated
    /\ Len(Starts) = 1 /\ HasComma /\ ElemLen(Starts[1]) = 3
    /\ ReturnsCollection("(")

\* Operands: an atom, a prefix operator and an atom, or  atom OP atom.
IsPrefixOp(r) ==
    /\ r.kind \in {"OP", "NAME"}
    /\ Registered(r.text)
    /\ Class(r.text).nud.kind = "prefix"

SLen(s) ==
    IF s > Len(program) THEN 0
    ELSE IF IsPrefixOp(program[s]) THEN 2
    ELSE IF s < Len(program) /\ IsBinary(program[s + 1]) THEN 3
    ELSE 1

IsSimple(s) ==
    /\ SLen(s) > 0
    /\ s + SLen(s) - 1 <= Len(program)
    /\ CASE SLen(s) = 1 -> IsAtom(program[s])
         [] SLen(s) = 2 -> IsAtom(program[s + 1])
         [] SLen(s) = 3 -> IsAtom(program[s]) /\ IsAtom(program[s + 2])

SRoot(s) == IF SLen(s) = 3 THEN s + 1 ELSE s

STree(s) ==
    CASE SLen(s) = 1 -> Leaf(s, program[s])
      [] SLen(s) = 2 -> /\ heap[s].id = program[s].text
                        /\ heap[s].first = Node(s + 1)
                        /\ heap[s].second = None /\ heap[s].third = None
                        /\ Leaf(s + 1, program[s + 1])
      [] SLen(s) = 3 -> /\ Bin(s + 1, program[s + 1].text, s, s + 2)
                        /\ Leaf(s, program[s]) /\ Leaf(s + 2, program[s + 2])

\* where the `if` and the `else` of a ternary of simple operands starting at
\* s would stand
IfAt(s) == s + SLen(s)

ElseAt(s) == IfAt(s) + 1 + SLen(IfAt(s) + 1)

IsTernaryAt(s) ==
    /\ IsSimple(s)
    /\ IfAt(s) <= Len(program) /\ program[IfAt(s)] = Lex("if")
    /\ IsSimple(IfAt(s) + 1)
    /\ ElseAt(s) <= Len(program) /\ program[ElseAt(s)] = Lex("else")
    /\ IsSimple(ElseAt(s) + 1)

\* a simple operand, or a ternary of simple operands, starts at s
IsOperand(s) == IsSimple(s)

FLen(s) ==
    IF IsTernaryAt(s) THEN ElseAt(s) + SLen(ElseAt(s) + 1) + 1 - s ELSE SLen(s)

FRoot(s) == IF IsTernaryAt(s) THEN IfAt(s) ELSE SRoot(s)

IfNode(i, x, c, y) ==
    /\ i \in DOMAIN heap
    /\ heap[i].id = "if"
    /\ heap[i].first = Node(x)
    /\ heap[i].second = Node(c)
    /\ heap[i].third = Node(y)

FTree(s) ==
    IF IsTernaryAt(s)
    THEN /\ IfNode(IfAt(s), SRoot(s), SRoot(IfAt(s) + 1), SRoot(ElseAt(s) + 1))
         /\ STree(s) /\ STree(IfAt(s) + 1) /\ STree(ElseAt(s) + 1)
    ELSE STree(s)

\* program starts  X if C  with X a simple operand and C an operand
C6_If == 1 + SLen(1)

C6_Cond == C6_If + 1

C6_Else == C6_Cond + FLen(C6_Cond)

C6_Alt == C6_Else + 1

C6_Conditional ==
    /\ IsSimple(1)
    /\ C6_If <= Len(program) /\ program[C6_If] = Lex("if")
    /\ IsOperand(C6_Cond)

\* ... and goes on  else Y  with Y an operand, to the end
C6_Ternary ==
    /\ C6_Conditional
    /\ C6_Else <= Len(program) /\ program[C6_Else] = Lex("else")
    /\ IsOperand(C6_Alt)
    /\ C6_Alt + FLen(C6_Alt) - 1 = Len(program)

\* ... or the input ends after C, or a token other than else ends C
C6_NoElse ==
    /\ C6_Conditional
    /\ \/ C6_Else = Len(program) + 1
       \/ /\ C6_Else <= Len(program)
          /\ EndsOperand(program[C6_Else])
          /\ program[C6_Else] # Lex("else")

Nested(s) == IF IsTernaryAt(s) THEN 1 ELSE 0

\* C6: parse("X if C else Y") returns the if node with first = tree of X,
\* second = tree of C, third = tree of Y, C and Y each parsed by
\* expression(0) (X an operand binding tighter than if); if the token after
\* the condition is not else, the parse fails with the expected-token error
\* and returns no two-child node.
C6_TernaryHasThreeChildren ==
    /\ (Done /\ C6_Ternary) =>
          /\ ReturnedNode(C6_If)
          /\ IfNode(C6_If, SRoot(1), FRoot(C6_Cond), FRoot(C6_Alt))
          /\ STree(1) /\ FTree(C6_Cond) /\ FTree(C6_Alt)
          /\ Entered(0) = 3 + 2 * (Nested(C6_Cond) + Nested(C6_Alt))
    /\ (Done /\ C6_NoElse) => Raised(ExpectedError("else"))

C6_Witness ==
    /\ Done /\ C6_Ternary
    /\ SLen(1) = 3 /\ Nested(C6_Cond) = 0 /\ SLen(C6_Cond) = 2
    /\ Nested(C6_Alt) = 1
    /\ ReturnedNode(C6_If)
    /\ IfNode(C6_If, SRoot(1), FRoot(C6_Cond), FRoot(C6_Alt))

\* Postfix forms after an atom:  . name,  [ e ]  and  ( e, ..., e )  with
\* simple operands e.
IsName(r) == r.kind = "NAME" /\ ~Registered(r.text)

RECURSIVE ArgStarts(_)
\* where the arguments start, from position s on, up to the closing
\* parenthesis; 0 marks a place where no argument or separator stands
ArgStarts(s) ==
    IF ~IsSimple(s) \/ s + SLen(s) > Len(program) THEN <<0>>
    ELSE IF program[s + SLen(s)] = Lex(")") THEN <<s>>
    ELSE IF program[s + SLen(s)] = Lex(",")
    THEN <<s>> \o ArgStarts(s + SLen(s) + 1)
    ELSE <<0>>

\* the arguments of the call whose parenthesis is at s
CallArgs(s) ==
    IF s < Len(program) /\ program[s + 1] = Lex(")") THEN <<>>
    ELSE ArgStarts(s + 1)

Last(q) == q[Len(q)]

\* the position after the postfix form at s, 0 if none stands there
FormEnd(s) ==
    CASE program[s] = Lex(".") ->
           IF s < Len(program) /\ IsName(program[s + 1]) THEN s + 2 ELSE 0
      [] program[s] = Lex("[") ->
           IF /\ IsSimple(s + 1)
              /\ s + 1 + SLen(s + 1) <= Len(program)
              /\ program[s + 1 + SLen(s + 1)] = Lex("]")
           THEN s + 2 + SLen(s + 1) ELSE 0
      [] program[s] = Lex("(") ->
           IF CallArgs(s) = <<>> THEN s + 2
           ELSE IF Last(CallArgs(s)) = 0 THEN 0
           ELSE Last(CallArgs(s)) + SLen(Last(CallArgs(s))) + 1
      [] OTHER -> 0

RECURSIVE PostfixOps(_)
\* the positions of the postfix operators from s to the end of the program
PostfixOps(s) ==
    IF s > Len(program) THEN <<>>
    ELSE IF FormEnd(s) = 0 THEN <<0>>
    ELSE <<s>> \o PostfixOps(FormEnd(s))

Ops == PostfixOps(2)

\* program is an atom followed by postfix forms
C7_PostfixChain ==
    /\ Len(program) >= 2
    /\ IsAtom(program[1])
    /\ \A j \in DOMAIN Ops : Ops[j] # 0

\* the operand of the postfix form at s is its second child
PostfixOperand(s) ==
    CASE program[s] = Lex(".") ->
           heap[s].second = Node(s + 1) /\ Leaf(s + 1, program[s + 1])
      [] program[s] = Lex("[") ->
           heap[s].second = Node(SRoot(s + 1)) /\ STree(s + 1)
      [] program[s] = Lex("(") ->
           /\ heap[s].second =
                List([j \in DOMAIN CallArgs(s) |-> SRoot(CallArgs(s)[j])])
           /\ \A j \in DOMAIN CallArgs(s) : STree(CallArgs(s)[j])

\* C7: the postfix forms . [ ( compose left to right: each postfix form
\* applied after a chain takes the whole preceding chain as its first child,
\* so for a.b[0](1,2) the call node is the root, its first child the
\* subscript node, whose first child is the attribute node, whose first child
\* is the name a.
C7_PostfixComposesLeftToRight ==
    (Done /\ C7_PostfixChain) =>
        /\ ReturnedNode(Last(Ops))
        /\ Leaf(1, program[1])
        /\ \A j \in DOMAIN Ops :
             /\ heap[Ops[j]].id = program[Ops[j]].text
             /\ heap[Ops[j]].first = Node(IF j = 1 THEN 1 ELSE Ops[j - 1])
             /\ heap[Ops[j]].third = None
             /\ PostfixOperand(Ops[j])

C7_Witness ==
    /\ Done
    /\ program = P(<<"a", ".", "b", "[", "0", "]", "(", "1", ",", "2", ")">>)
    /\ ReturnedNode(7)
    /\ heap[7].first = Node(4) /\ heap[7].second = List(<<8, 10>>)
    /\ heap[4].first = Node(2) /\ heap[4].second = Node(5)
    /\ heap[2].first = Node(1) /\ heap[2].second = Node(3)
    /\ Desc(heap, 2).lbp = 150 /\ Desc(heap, 4).lbp = 150
    /\ Desc(heap, 7).lbp = 150

\* program ends where an operand is required: it is empty, or its last token
\* is a binary or prefix operator whose operand is missing
C8_EndsWhereOperandRequired ==
    \/ Len(program) = 0
    \/ Len(program) = 1 /\ IsPrefixOp(program[1])
    \/ Len(program) = 2 /\ IsAtom(program[1]) /\ IsBinary(program[2])
    \/ /\ Len(program) = 3
       /\ IsAtom(program[1]) /\ IsBinary(program[2]) /\ IsPrefixOp(program[3])

MissingPrefixError(id) == Exc("SyntaxError", "Syntax error", id, "nud")

StopIteration == Exc("StopIteration", "", "", "next")

\* C8: parsing an input that ends where an operand is required (such as
\* "1 +") fails with the SyntaxError "Syntax error" of symbol_base.nud naming
\* (end), and in no other way: not by requesting a token from the exhausted
\* stream, and not by returning a partial tree.
C8_MissingOperandRaisesSyntaxError ==
    (Done /\ C8_EndsWhereOperandRequired) => Raised(MissingPrefixError("(end)"))

\* C8, what the code does: expression() requests the token after (end)
\* before it calls the nud of (end), and the exhausted generator raises
\* StopIteration.
C8_MissingOperandRaisesStopIteration ==
    (Done /\ C8_EndsWhereOperandRequired) => Raised(StopIteration)

\* the nud of an (end) instance is never called
C8_EndMarkerNudNeverRuns ==
    \A k \in DOMAIN log : log[k].ev = "nud" => heap[log[k].tok].id # "(end)"

C8_StopIterationWitness ==
    /\ Done
    /\ program = P(<<"1", "+">>)
    /\ Raised(StopIteration)
    /\ Len(heap) = 3 /\ heap[3].id = "(end)"
    /\ log[Len(log)] = Ev("next", 0)

\* The first operator token with no registered class, 0 if there is none.
UnknownOperator(r) == r.kind = "OP" /\ ~Registered(r.text)

FirstUnknown ==
    IF \E k \in DOMAIN program : UnknownOperator(program[k])
    THEN CHOOSE k \in DOMAIN program :
           /\ UnknownOperator(program[k])
           /\ \A j \in 1..(k - 1) : ~UnknownOperator(program[j])
    ELSE 0

UnknownOperatorError ==
    Exc("SyntaxError", "Unknown operator", "(operator)", "tokenize")

EngineEvents == {"expression", "nud", "led"}

\* C9: for an input containing an operator with no registered class (such
\* as "1 @ 2") the unknown-operator error is raised at the token adapter
\* before the engine runs: when it is raised no call of expression() has
\* started and no prefix or infix behaviour of an earlier token has been
\* invoked.
C9_UnknownOperatorBeforeEngine ==
    Raised(UnknownOperatorError) =>
        \A k \in DOMAIN log : log[k].ev \notin EngineEvents

\* C9 as the code has it: the adapter is a generator, so the error is raised
\* when the engine requests the unknown operator, token k.  No instance is
\* ever made for it or for a later token; when the error is raised the k - 1
\* tokens before it have been made into instances, and the behaviour of token
\* k - 1 has not been invoked; expression() has not been called if k = 1 and
\* has been called if k > 1; for k <= 2 and a first token the adapter
\* accepts, the error is what ends the parse.
C9_UnknownOperatorRaisedOnDemand ==
    /\ FirstUnknown # 0 => Len(heap) < FirstUnknown
    /\ Raised(UnknownOperatorError) =>
          /\ FirstUnknown # 0
          /\ Len(heap) = FirstUnknown - 1
          /\ gen.pos = FirstUnknown - 1
          /\ \A k \in DOMAIN log :
               log[k].ev \in {"nud", "led"} => log[k].tok < FirstUnknown - 1
          /\ IF FirstUnknown = 1
             THEN \A k \in DOMAIN log : log[k].ev \notin EngineEvents
             ELSE log[2] = Ev("expression", 0)
    /\ (/\ Done
        /\ \/ FirstUnknown = 1
           \/ FirstUnknown = 2 /\ program[1].kind \in DOMAIN type_map)
          => Raised(UnknownOperatorError)

C9_Witness ==
    /\ Done
    /\ program = P(<<"1", "@", "2">>)
    /\ Raised(UnknownOperatorError)
    /\ log = <<Ev("next", 1), Ev("expression", 0), Ev("next", 0)>>
    /\ Len(heap) = 1

\* an input with an unknown operator that parses without an error
C9_NeverRequested ==
    /\ Done /\ FirstUnknown = 3 /\ outcome.status = "returned"

\* symbol_table holds one class per identifier registered, and every class
\* is the one its identifier names
OneClassPerIdentifier ==
    /\ DOMAIN registry.symbol_table = DOMAIN passed
    /\ Len(registry.classes) = Cardinality(DOMAIN registry.symbol_table)
    /\ \A id \in DOMAIN registry.symbol_table :
         /\ registry.symbol_table[id] \in DOMAIN registry.classes
         /\ Class(id).id = id
    /\ \A i, j \in DOMAIN registry.classes :
         registry.classes[i].id = registry.classes[j].id => i = j

LbpIsMaximumPassed ==
    \A id \in DOMAIN registry.symbol_table :
      Class(id).lbp = SetMax(passed[id])

\* a step keeps every class and lowers no lbp
NeverLowered ==
    \A id \in DOMAIN registry.symbol_table :
      /\ id \in DOMAIN registry'.symbol_table
      /\ registry'.symbol_table[id] = registry.symbol_table[id]
      /\ registry'.classes[registry'.symbol_table[id]].lbp >= Class(id).lbp

\* C10: after any sequence of registration calls (symbol, infix, infix_r,
\* prefix, constant, method) the lbp stored for an identifier is the maximum
\* of the binding powers passed to symbol() for it (0 when only the default
\* was passed); a later registration with a smaller binding power never
\* lowers it, and the table holds exactly one class per identifier.
C10_RegistryKeepsMaximum ==
    /\ [](OneClassPerIdentifier /\ LbpIsMaximumPassed)
    /\ [][NeverLowered]_vars

\* the latest call passed a smaller binding power than the one stored
C10_Witness ==
    /\ DOMAIN registry.symbol_table = RegIds
    /\ log # <<>>
    /\ log[1].bp < Class(log[1].id).lbp
    /\ Class(log[1].id).lbp = MaxBp
    /\ passed[log[1].id] = Bps
    /\ \E id \in RegIds : Class(id).lbp = 0

\* program is  U a OP b  with a prefix operator U and a one-word binary
\* operator OP
C11_UnaryThenBinary ==
    /\ Len(program) = 4
    /\ IsPrefixOp(program[1]) /\ IsAtom(program[2])
    /\ IsBinary(program[3]) /\ IsAtom(program[4])

\* the tree (OP (U a) b)
C11_UnaryIsOperand ==
    /\ ReturnedNode(3)
    /\ Bin(3, program[3].text, 1, 4)
    /\ heap[1].id = program[1].text
    /\ heap[1].first = Node(2) /\ heap[1].second = None
    /\ Leaf(2, program[2]) /\ Leaf(4, program[4])

\* the tree (U (OP a b))
C11_BinaryIsAbsorbed ==
    /\ ReturnedNode(1)
    /\ heap[1].id = program[1].text
    /\ heap[1].first = Node(3) /\ heap[1].second = None
    /\ Bin(3, program[3].text, 2, 4)
    /\ Leaf(2, program[2]) /\ Leaf(4, program[4])

\* the classes of a registry with a prefix behaviour, and with lbp > 0 and an
\* infix behaviour
PrefixClasses(reg) ==
    { c \in DOMAIN reg.classes : reg.classes[c].nud.kind = "prefix" }

BinaryClasses(reg) ==
    { c \in DOMAIN reg.classes :
        reg.classes[c].led.kind \in {"infix", "infix_r", "is", "not_in"} }

\* every prefix operator's operand power exceeds every binary operator's lbp
PrefixAboveBinary(reg) ==
    \A u \in PrefixClasses(reg), o \in BinaryClasses(reg) :
      reg.classes[u].nud.bp > reg.classes[o].lbp

\* C11: every prefix operator registered with prefix() parses its operand at
\* a threshold strictly greater than the lbp of every registered binary
\* operator, so parse("U a OP b") returns the OP node whose first child is
\* (U a) for every binary operator OP.
C11_UnaryNeverAbsorbsBinary ==
    (Done /\ C11_UnaryThenBinary) =>
        PrefixAboveBinary(registry) /\ C11_UnaryIsOperand

\* C11 as the code has it: the operand of U is parsed at the power bp given
\* to prefix(U, bp); OP stays outside the operand exactly when lbp(OP) <= bp,
\* and is absorbed into it, giving (U (OP a b)), when lbp(OP) > bp.  In
\* pratt-rd-parser-2.py the prefix power does exceed every binary lbp.
C11_UnaryAbsorbsStrongerBinary ==
    /\ (Done /\ C11_UnaryThenBinary) =>
          IF Class(program[3].text).lbp <= Class(program[1].text).nud.bp
          THEN C11_UnaryIsOperand
          ELSE C11_BinaryIsAbsorbed
    /\ registry = Grammar => ~PrefixAboveBinary(registry)
    /\ PrefixAboveBinary(Grammar2)

\* - a ** b is (- (** a b))
C11_Witness ==
    /\ Done /\ C11_UnaryThenBinary
    /\ program[1].text = "-" /\ program[3].text = "**"
    /\ Class("**").lbp > Class("-").nud.bp
    /\ C11_BinaryIsAbsorbed

\* not a + b is (not (+ a b)), and - a * b is (* (- a) b)
C11_NotAbsorbsWitness ==
    /\ Done /\ C11_UnaryThenBinary
    /\ program[1].text = "not" /\ program[3].text = "+"
    /\ C11_BinaryIsAbsorbed

C11_OperandWitness ==
    /\ Done /\ C11_UnaryThenBinary
    /\ program[1].text = "-" /\ program[3].text = "*"
    /\ C11_UnaryIsOperand

Events(e) == { k \in DOMAIN log : log[k].ev = e }

\* Every call made so far has consumed a token of its own: no instance had
\* its nud or its led called twice, no more calls of expression() were made
\* than instances exist, the adapter made at most one instance per raw token
\* and one for the end, and the end marker's lbp is 0.
C12_EveryCallConsumes ==
    /\ \A i, j \in Events("nud") : log[i].tok = log[j].tok => i = j
    /\ \A i, j \in Events("led") : log[i].tok = log[j].tok => i = j
    /\ Cardinality(Events("expression")) <= Len(heap)
    /\ Len(heap) <= Len(program) + 1
    /\ Class("(end)").lbp = 0
    /\ \A i \in DOMAIN heap : heap[i].id = "(end)" => i = Len(program) + 1

\* C12: for every finite token stream parse() terminates, with a tree or an
\* error: each iteration of the loop of expression() and of the collecting
\* loops consumes a token, and the end marker's lbp 0 stops the loop of
\* expression() for every threshold.
C12_ParseTerminates ==
    /\ []C12_EveryCallConsumes
    /\ (outcome.status = "running") ~> Done

\* a parse that went through the loops of the call, list and lambda forms
C12_Witness ==
    /\ Done
    /\ outcome.status = "returned"
    /\ Cardinality(Events("expression")) >= 3
    /\ Cardinality(Events("led")) >= 2
    /\ heap[Len(heap)].id = "(end)"
    /\ \E i \in DOMAIN heap : heap[i].id = "(" /\ heap[i].second.k = "list"
                               /\ Len(heap[i].second.v) = 2

EndMarkers == { i \in DOMAIN heap : heap[i].id = "(end)" }

\* the stream is over: the generator is exhausted, or it raised
Exhausted == outcome.status = "raised" /\ outcome.exc = StopIteration

Aborted == outcome.status = "raised" /\ outcome.exc # StopIteration

\* the adapter of the loaded module makes an instance of raw token r
Accepted(r) ==
    IF registry = Grammar2
    THEN r.kind = "NUMBER" \/ Registered(r.text)
    ELSE /\ r.kind \in DOMAIN type_map
         /\ r.kind = "OP" => Registered(r.text)

AllAccepted ==
    /\ \A i \in DOMAIN program : Accepted(program[i])
    /\ registry = Grammar => ParenLev(program, Len(program)) = 0

C13_AbortedWitness ==
    /\ Aborted /\ registry = Grammar2 /\ Len(heap) = 2 /\ EndMarkers = {}

\* the names the grammar registers
Keywords ==
    {"if", "else", "lambda", "not", "in", "is", "or", "and",
     "None", "True", "False"}

\* instance x is a fresh instance of the class registered for text, with no
\* value and no children
InstanceOf(x, text) ==
    /\ Registered(text)
    /\ x.cls = registry.symbol_table[text]
    /\ x.id = text
    /\ x.value = ""
    /\ x.first = None /\ x.second = None /\ x.third = None

\* instance x is a fresh instance of the generic class id carrying text
Carries(x, id, text) ==
    /\ x.cls = registry.symbol_table[id]
    /\ x.id = id
    /\ x.value = text
    /\ x.first = None /\ x.second = None /\ x.third = None

\* instance x is what the adapter makes of raw token r
AdapterMaps(r, x) ==
    CASE r.kind \in {"NUMBER", "STRING"} -> Carries(x, "(literal)", r.text)
      [] r.kind = "NAME" /\ r.text \in Keywords -> InstanceOf(x, r.text)
      [] r.kind = "NAME" /\ r.text \notin Keywords -> Carries(x, "(name)", r.text)
      [] r.kind = "OP" -> InstanceOf(x, r.text)
      [] OTHER -> FALSE

\* C14: the adapter maps number and string tokens to (literal) instances
\* carrying the text; a name that is a registered identifier (if, else,
\* lambda, not, in, is, or, and, None, True, False) to an instance of that
\* class with no value; any other name to a (name) instance carrying the
\* text; a registered operator to an instance of its class; and it raises
\* the unknown-operator error for an unregistered operator.
C14_AdapterMapping ==
    registry = Grammar =>
      /\ \A i \in DOMAIN heap :
           i <= Len(program) => AdapterMaps(program[i], heap[i])
      /\ \A w \in Words : Registered(w) <=> w \in Keywords
      /\ Raised(UnknownOperatorError) =>
           /\ Len(heap) < Len(program)
           /\ UnknownOperator(program[Len(heap) + 1])
      /\ (/\ Aborted
          /\ Len(heap) < Len(program)
          /\ UnknownOperator(program[Len(heap) + 1]))
           => Raised(UnknownOperatorError)

\* a stream with a literal, a keyword, a name and a registered operator
C14_Witness ==
    /\ registry = Grammar
    /\ Exhausted
    /\ \E i, j, k, l \in DOMAIN program :
         /\ program[i].kind = "NUMBER" /\ heap[i].id = "(literal)"
         /\ program[j] = Lex("if") /\ heap[j].id = "if"
         /\ program[k] = Lex("a") /\ heap[k].id = "(name)"
         /\ program[l] = Lex("+") /\ heap[l].id = "+"

C14_UnknownOperatorWitness ==
    /\ registry = Grammar
    /\ Raised(UnknownOperatorError)
    /\ Len(heap) = 3

\* the functions a thread of SpecPar is ever in
ParReach ==
    \A k \in DOMAIN stack :
      stack[k].fn \in {"expression", "base_nud", "self", "infix", "prefix"}

\* o is what parse(p) gives when it runs alone, for p an atom or  a OP b
AloneResult(p, o) ==
    /\ o.status = "returned"
    /\ IF Len(p) = 1 THEN Leaf(o.value, p[1])
       ELSE \E l, r \in DOMAIN heap :
              /\ Bin(o.value, p[2].text, l, r)
              /\ Leaf(l, p[1]) /\ Leaf(r, p[3])

Finished(o) == o.status \in {"returned", "raised"}

\* a single parse() of one of these programs gives that result
C15_AloneResultWhenAlone ==
    (Done /\ program \in ParPrograms /\ suspended = NoThread) =>
        AloneResult(program, outcome)

\* C15: two parse() calls on different inputs whose steps are interleaved
\* each return the tree or error they return when run alone: they share only
\* the registry, and each has its own current-token cursor and token source.
C15_InterleavedParsesAsAlone ==
    /\ ParReach
    /\ Finished(outcome) => AloneResult(program, outcome)
    /\ Finished(suspended.outcome) =>
          AloneResult(suspended.program, suspended.outcome)

\* parse("1 + a") was suspended after its first two tokens, the other thread
\* called parse(), and the first parse returned the tree 1
C15_WrongTreeWitness ==
    /\ outcome.status = "returned"
    /\ program = P(<<"1", "+", "a">>)
    /\ Leaf(outcome.value, program[1])
    /\ suspended.outcome.status = "running"
    /\ suspended.switches = 2

\* the cursor and the token source are shared: the running thread reads the
\* generator that the other thread's parse() made
C15_SharedSourceWitness ==
    /\ outcome.status = "running"
    /\ suspended.bound
    /\ Source # program

RECURSIVE ArgsStop(_)
\* the position where a list of comma-separated simple operands starting at
\* s stops: after its last operand; 0 if no operand stands at s
ArgsStop(s) ==
    IF ~IsSimple(s) THEN 0
    ELSE IF s + SLen(s) <= Len(program) /\ program[s + SLen(s)] = Lex(",")
    THEN ArgsStop(s + SLen(s) + 1)
    ELSE s + SLen(s)

\* program starts  f (
C16_CallStart ==
    /\ Len(program) >= 2
    /\ IsAtom(program[1]) /\ program[2] = Lex("(")

\* program is  f ( e1, ..., en )  with n >= 0
C16_Call == C16_CallStart /\ FormEnd(2) = Len(program) + 1

\* the arguments are followed by the end of the input
C16_EndsAfterArguments ==
    /\ C16_CallStart
    /\ ArgsStop(3) = Len(program) + 1

\* the arguments are followed by a token that ends the last argument and is
\* neither , nor )
C16_OtherTokenAfterArguments ==
    /\ C16_CallStart
    /\ ArgsStop(3) \in 4..Len(program)
    /\ EndsOperand(program[ArgsStop(3)])
    /\ program[ArgsStop(3)].text \notin {",", ")"}

\* C16: f(e1, ..., en), n >= 0, returns the ( node with first = the callee
\* and second = the list of the argument trees in source order, each argument
\* parsed by expression(0); f() gives the empty list; when the arguments are
\* not followed by ) an error is raised.
C16_CallCollectsArguments ==
    /\ (Done /\ C16_Call) =>
          /\ ReturnedNode(2)
          /\ heap[2].id = "("
          /\ heap[2].first = Node(1) /\ Leaf(1, program[1])
          /\ heap[2].second =
               List([j \in DOMAIN CallArgs(2) |-> SRoot(CallArgs(2)[j])])
          /\ \A j \in DOMAIN CallArgs(2) : STree(CallArgs(2)[j])
          /\ heap[2].third = None
          /\ Entered(0) = 1 + Len(CallArgs(2))
    /\ (Done /\ C16_OtherTokenAfterArguments) => Raised(ExpectedError(")"))
    /\ (Done /\ C16_EndsAfterArguments) => outcome.status = "raised"

\* f(a + 1, None)
C16_Witness ==
    /\ Done /\ C16_Call
    /\ Len(CallArgs(2)) = 2 /\ SLen(3) = 3
    /\ ReturnedNode(2)
    /\ heap[2].second = List(<<4, 7>>)

C16_EmptyWitness ==
    /\ Done /\ C16_Call /\ Len(program) = 3
    /\ ReturnedNode(2) /\ heap[2].second = List(<<>>)

C16_NotClosedWitness ==
    /\ Done /\ C16_OtherTokenAfterArguments /\ Raised(ExpectedError(")"))

\* program is  a W1 W2 b  or  a W1 W2 b OP c  for the keywords W1, W2
TwoWord(w1, w2) ==
    /\ Len(program) \in {4, 6}
    /\ IsAtom(program[1])
    /\ program[2] = Lex(w1) /\ program[3] = Lex(w2)
    /\ IsAtom(program[4])
    /\ Len(program) = 6 => IsBinary(program[5]) /\ IsAtom(program[6])

\* the tree of such a program: the node of W1 has the compound id, the left
\* operand as first, and expression(60) as second
TwoWordTree(id) ==
    /\ heap[2].id = id
    /\ heap[2].first = Node(1) /\ heap[2].third = None
    /\ Leaf(1, program[1]) /\ Leaf(4, program[4])
    /\ heap[3].id = program[3].text /\ heap[3].first = None
    /\ Entered(60) >= 1
    /\ IF Len(program) = 4
       THEN ReturnedNode(2) /\ heap[2].second = Node(4)
       ELSE IF Class(program[5].text).lbp > 60
       THEN /\ ReturnedNode(2) /\ heap[2].second = Node(5)
            /\ Bin(5, program[5].text, 4, 6)
       ELSE /\ ReturnedNode(5) /\ heap[2].second = Node(4)
            /\ Bin(5, program[5].text, 2, 6)

\* program is  a is b  or  a is b OP c
PlainIs ==
    /\ Len(program) \in {3, 5}
    /\ IsAtom(program[1]) /\ program[2] = Lex("is") /\ IsAtom(program[3])
    /\ Len(program) = 5 => IsBinary(program[4]) /\ IsAtom(program[5])

PlainIsTree ==
    /\ heap[2].id = "is"
    /\ heap[2].first = Node(1) /\ heap[2].third = None
    /\ IF Len(program) = 3
       THEN ReturnedNode(2) /\ heap[2].second = Node(3)
       ELSE IF Class(program[4].text).lbp > 60
       THEN /\ ReturnedNode(2) /\ heap[2].second = Node(4)
            /\ Bin(4, program[4].text, 3, 5)
       ELSE /\ ReturnedNode(4) /\ heap[2].second = Node(3)
            /\ Bin(4, program[4].text, 2, 5)

\* program is  a not  followed by the end or by a token other than in that
\* the adapter accepts
NotWithoutIn ==
    /\ Len(program) >= 2
    /\ IsAtom(program[1]) /\ program[2] = Lex("not")
    /\ Len(program) >= 3 => Accepted(program[3]) /\ program[3] # Lex("in")

\* C17: in infix position not followed by in gives a node with id "not in",
\* is followed by not gives a node with id "is not", otherwise is keeps id
\* "is"; the extra keyword is consumed, first is the left operand and second
\* is expression(60); not in infix position without a following in aborts
\* the parse with an error and requests no further token.
C17_TwoWordOperators ==
    /\ (Done /\ TwoWord("not", "in")) => TwoWordTree("not in")
    /\ (Done /\ TwoWord("is", "not")) => TwoWordTree("is not")
    /\ (Done /\ PlainIs) => PlainIsTree
    /\ (Done /\ NotWithoutIn) =>
          /\ Raised(Exc("SyntaxError", "Invalid syntax", "", "not_in"))
          /\ Len(heap) = 3
          /\ heap[2].id = "not" /\ heap[2].first = None

\* a not in b + c  is  (not in a (+ b c))
C17_Witness ==
    /\ Done /\ TwoWord("not", "in") /\ Len(program) = 6
    /\ program[5] = Lex("+")
    /\ ReturnedNode(2) /\ heap[2].id = "not in" /\ heap[2].second = Node(5)

C17_IsNotWitness ==
    /\ Done /\ TwoWord("is", "not") /\ ReturnedNode(2) /\ heap[2].id = "is not"

C17_NotWithoutInWitness ==
    /\ Done /\ NotWithoutIn /\ Len(program) = 3 /\ Len(heap) = 3

RECURSIVE ParamsFrom(_)
\* the positions of the comma-separated names from position s on; 0 marks a
\* parameter position that holds no name
ParamsFrom(s) ==
    IF s <= Len(program) /\ IsName(program[s])
    THEN IF s < Len(program) /\ program[s + 1] = Lex(",")
         THEN <<s>> \o ParamsFrom(s + 2)
         ELSE <<s>>
    ELSE <<0>>

\* the parameters of a program that starts with lambda
Params ==
    IF Len(program) >= 2 /\ program[2] = Lex(":") THEN <<>> ELSE ParamsFrom(2)

C18_Lambda == Len(program) >= 1 /\ program[1] = Lex("lambda")

C18_ParamsOk == C18_Lambda /\ \A j \in DOMAIN Params : Params[j] # 0

\* the parameter position that holds no name
BadParam == IF Len(Params) = 1 THEN 2 ELSE Params[Len(Params) - 1] + 2

C18_BadParameter ==
    /\ C18_Lambda /\ Params # <<>> /\ Last(Params) = 0
    /\ BadParam <= Len(program) => Accepted(program[BadParam])

\* where the colon has to stand
ColonAt == IF Params = <<>> THEN 2 ELSE Last(Params) + 1

C18_NoColon ==
    /\ C18_ParamsOk
    /\ ColonAt <= Len(program) =>
         Accepted(program[ColonAt]) /\ program[ColonAt] # Lex(":")

\* lambda p1, ..., pn : body  with the body an operand up to the end
C18_WellFormed ==
    /\ C18_ParamsOk
    /\ ColonAt < Len(program) /\ program[ColonAt] = Lex(":")
    /\ IsOperand(ColonAt + 1)
    /\ ColonAt + FLen(ColonAt + 1) = Len(program)

\* C18: the nud of lambda returns a node with first = the ordered list of
\* the parameter name tokens (empty when : follows lambda at once) and
\* second = the body parsed by expression(0); it fails with an error when a
\* parameter position holds a token that is no generic name, or when : does
\* not follow the parameter list.
C18_LambdaForm ==
    /\ (Done /\ C18_WellFormed) =>
          /\ ReturnedNode(1)
          /\ heap[1].id = "lambda"
          /\ heap[1].first = List(Params)
          /\ \A j \in DOMAIN Params : Leaf(Params[j], program[Params[j]])
          /\ heap[1].second = Node(FRoot(ColonAt + 1))
          /\ FTree(ColonAt + 1)
          /\ heap[1].third = None
          /\ Entered(0) = 2 + 2 * Nested(ColonAt + 1)
    /\ (Done /\ C18_BadParameter) =>
          Raised(Exc("SyntaxError", "Expected an argument name.", "",
                     "argument_list"))
    /\ (Done /\ C18_NoColon) => Raised(ExpectedError(":"))

\* lambda a, b : body
C18_Witness ==
    /\ Done /\ C18_WellFormed
    /\ Params = <<2, 4>>
    /\ ReturnedNode(1) /\ heap[1].first = List(<<2, 4>>)
    /\ heap[1].second = Node(7) /\ SLen(6) = 3

C18_NoParamsWitness ==
    /\ Done /\ C18_WellFormed /\ Params = <<>> /\ heap[1].first = List(<<>>)

C18_BadParameterWitness ==
    /\ Done /\ C18_BadParameter /\ Len(Params) = 2 /\ outcome.status = "raised"

C18_NoColonWitness ==
    /\ Done /\ C18_NoColon /\ Raised(ExpectedError(":"))


(***************************************************************************)
(* C19: a branch that is not taken has no side effect (rd-parser-ebnf.py)  *)
(***************************************************************************)
\* the assignments calc made while a branch that is not taken was being
\* parsed
UntakenWrites(cp) == {w \in cp.writes : w.untaken > 0}

\* C19: after calc() of any line, var_table holds no assignment made by a set
\* that lies in a branch not selected by its enclosing conditions, ifs nested
\* in an untaken branch included.
C19_UntakenBranchHasNoEffect == UntakenWrites(calcs.ebnf) = {}

\* C19 for the ifs that are not nested in a branch: there the flag does what
\* the claim says.
C19_UnnestedBranchHasNoEffect ==
    calcs.line \in IfLines => UntakenWrites(calcs.ebnf) = {}

\* 'if 0 then if 0 then 1 else set x = 1' on a new calculator: the outer
\* condition is false, the whole inner if lies in the branch not taken, and x
\* is assigned.
C19_NestedElseWitness ==
    /\ calcs.calls = 1
    /\ calcs.line = If(<<"0">>, IfElse(<<"0">>, <<"1">>, <<"set", "x", "=", "1">>))
    /\ calcs.ebnf.err = ""
    /\ calcs.ebnf.var_table = [n \in {"x"} |-> PyInt(1)]
    /\ calcs.ebnf.writes = {[id |-> "x", untaken |-> 1]}

\* an untaken set of a plain if-else is parsed and leaves var_table alone
C19_UnnestedWitness ==
    /\ calcs.calls = 1
    /\ calcs.line = IfElse(<<"1">>, <<"set", "x", "=", "1">>, <<"set", "y", "=", "2">>)
    /\ calcs.ebnf.err = ""
    /\ calcs.ebnf.var_table = [n \in {"x"} |-> PyInt(1)]


(***************************************************************************)
(* C20: the precedence-climbing calculator against the EBNF calculator     *)
(***************************************************************************)
Accepts(cp) == cp.err = ""

\* the two calls of calc ended the same way: both raised or both returned,
\* the same value if they returned, and the same var_table
SameOutcome ==
    /\ Accepts(calcs.ebnf) <=> Accepts(calcs.climbing)
    /\ Accepts(calcs.ebnf) => calcs.ebnf.val = calcs.climbing.val
    /\ calcs.ebnf.var_table = calcs.climbing.var_table

\* C20: for every line and every variable table, calc of
\* rd-parser-precedence-climbing.py accepts the line iff calc of
\* rd-parser-ebnf.py does, and returns the same value and the same var_table.
C20_ClimbingSameAsEbnf == (calcs.calls > 0 /\ calcs.same) => SameOutcome

Count(line, S) == Cardinality({i \in 1..Len(line) : line[i] \in S})

\* the lines of the grammar with no if, no & and at most one comparison
Plain(line) ==
    /\ Count(line, {"if", "&"}) = 0
    /\ Count(line, DOMAIN cmp_op_map) <= 1

\* C20 where it holds: on the plain lines the EBNF calculator accepts, the two
\* calculators return the same value and leave the same var_table.
C20_SameOnPlainLines ==
    (calcs.calls > 0 /\ calcs.same /\ Plain(calcs.line) /\ Accepts(calcs.ebnf))
        => SameOutcome

\* 'set x = 1 & 1': the EBNF calculator stores 1 ^ 1, the other one 1 + 1
C20_AmpersandWitness ==
    /\ calcs.calls = 1
    /\ calcs.line = <<"set", "x", "=", "1", "&", "1">>
    /\ calcs.ebnf.var_table = [n \in {"x"} |-> PyInt(0)]
    /\ calcs.climbing.var_table = [n \in {"x"} |-> PyInt(2)]

\* an if statement: the precedence-climbing calculator raises AttributeError
C20_IfWitness ==
    /\ calcs.line = If(<<"1">>, <<"1">>)
    /\ calcs.ebnf.err = "" /\ calcs.ebnf.val = PyInt(1)
    /\ calcs.climbing.err = "AttributeError"

\* two comparisons in a row: a ParseError there, a value here
C20_ComparisonChainWitness ==
    /\ calcs.line = <<"2", "<", "3", "<", "2">>
    /\ calcs.ebnf.err = "ParseError"
    /\ calcs.climbing.err = "" /\ calcs.climbing.val = PyInt(1)

\* a plain line with three operators of different precedence, same result
C20_PlainWitness ==
    /\ calcs.line = <<"2", "-", "3", "**", "2">>
    /\ calcs.ebnf.val = PyInt(-7) /\ calcs.climbing.val = PyInt(-7)
    /\ Accepts(calcs.ebnf) /\ Accepts(calcs.climbing)


(***************************************************************************)
(* C21: one forward pass with one token of lookahead                       *)
(***************************************************************************)
\* the requests the adapter answered so far, in the order they were made
Requests == { k \in DOMAIN log : log[k].ev = "next" /\ log[k].tok # 0 }

\* instance i has been dispatched or matched: its nud or led was called, or
\* advance() passed over it
Dispatched(i) ==
    \E k \in DOMAIN log : log[k].ev \in {"nud", "led", "advance"} /\ log[k].tok = i

\* expression() holds instance i as t, t.nud() or t.led(left) being the next
\* thing it does
InHand(i) ==
    /\ Running
    /\ Top.fn = "expression" /\ Top.pc \in {"nud", "led"} /\ Top.self = i

\* the requests were answered in stream order, one instance per raw token
InStreamOrder ==
    /\ Cardinality(Requests) = Len(heap)
    /\ \A k \in Requests : log[k].tok = Cardinality({j \in Requests : j <= k})
    /\ gen.pos = Len(heap)
    /\ \A i \in DOMAIN heap :
         heap[i].cls = tokenize(registry, tokenize_python(program, i).id,
                                tokenize_python(program, i).value).inst.cls

\* the global token is the instance requested last, and every instance before
\* it has been dispatched or matched
OneLookahead ==
    /\ token = Len(heap)
    /\ \A i \in 1..(Len(heap) - 1) : Dispatched(i) \/ InHand(i)
    /\ \A i, j \in { k \in DOMAIN log : log[k].ev \in {"nud", "led", "advance"} } :
         log[i].tok = log[j].tok => i = j

\* C21: during any parse the tokens are requested in stream order, each once,
\* none is re-read or pushed back (the global token only ever moves to the
\* next instance), and at most one requested token, the global token, has not
\* been dispatched or matched.
C21_SingleForwardPass ==
    /\ [](InStreamOrder /\ OneLookahead)
    /\ [][token' # token => token' = token + 1 /\ Len(heap') = Len(heap) + 1]_vars

\* a parse that used expression() and advance(): '( a )' has returned, its
\* four instances requested in order, three of them dispatched or matched
C21_Witness ==
    /\ Done /\ outcome.status = "returned"
    /\ program = P(<<"(", "a", ")">>)
    /\ Len(heap) = 4 /\ token = 4
    /\ Dispatched(1) /\ Dispatched(2) /\ Dispatched(3) /\ ~Dispatched(4)


(***************************************************************************)
(* C22: the registry is read-only during a parse                           *)
(***************************************************************************)
\* instance i carries another id than its class: one of the rewrites of
\* symbol("not").led, symbol("is").led and the nud of the constants
Rewritten(i) == heap[i].id # Desc(heap, i).id

RewriteOfInstance(i) ==
    \/ heap[i].id = "not in" /\ Desc(heap, i).id = "not"
    \/ heap[i].id = "is not" /\ Desc(heap, i).id = "is"
    \/ /\ heap[i].id = "(literal)"
       /\ Desc(heap, i).id \in {"None", "True", "False"}
       /\ heap[i].value = Desc(heap, i).id

\* C22: no step of parse() changes the registry: in every state of a parse,
\* ended or not, returned or raised, symbol_table has the identifiers and
\* every descriptor the id, lbp, nud and led it had when the module was
\* loaded; an id rewrite is on the instance only.
C22_RegistryReadOnly ==
    /\ registry = Grammar
    /\ \A i \in DOMAIN heap : Rewritten(i) => RewriteOfInstance(i)

\* 'a not in b' has returned with the root rewritten to 'not in'
C22_Witness ==
    /\ Done /\ outcome.status = "returned"
    /\ \E i \in DOMAIN heap : heap[i].id = "not in" /\ outcome.value = i
    /\ Class("not").id = "not"

\* a parse that raised after rewriting a constant: the registry is as loaded
C22_RaisedWitness ==
    /\ outcome.status = "raised"
    /\ \E i \in DOMAIN heap : heap[i].id = "(literal)" /\ Desc(heap, i).id = "None"


(***************************************************************************)
(* C23: the tree is built bottom-up, without sharing                       *)
(***************************************************************************)
\* the instances in the child slots of instance i, in order
Children(i) == heap[i].first.v \o heap[i].second.v \o heap[i].third.v

\* the instances at the positions of the tree below (and with) instance i, in
\* preorder; the walk gives up after fuel levels, naming i a second time
RECURSIVE Subtree(_, _), Forest(_, _)
Subtree(i, fuel) ==
    IF fuel = 0 THEN <<i, i>> ELSE <<i>> \o Forest(Children(i), fuel - 1)

Forest(s, fuel) ==
    IF s = <<>> THEN <<>> ELSE Subtree(Head(s), fuel) \o Forest(Tail(s), fuel)

\* a behaviour of instance i is being executed
Behaving(i) ==
    \E k \in DOMAIN stack : stack[k].fn # "expression" /\ stack[k].self = i

\* a behaviour of instance i was invoked and has returned (or raised)
Built(i) ==
    /\ \E k \in DOMAIN log : log[k].ev \in {"nud", "led"} /\ log[k].tok = i
    /\ ~Behaving(i)

\* no instance had two behaviours invoked, or one twice
OneBehaviourEach ==
    \A i, j \in { k \in DOMAIN log : log[k].ev \in {"nud", "led"} } :
        log[i].tok = log[j].tok => i = j

\* in the tree parse() returned every instance is at one position only
NoSharing ==
    outcome.status = "returned" =>
        \A occ \in {Subtree(outcome.value, Len(heap))} :
            \A a, b \in DOMAIN occ : occ[a] = occ[b] => a = b

\* C23: every instance has at most one of its behaviours invoked, at most
\* once; a node a behaviour has returned is never written again (id, value,
\* first, second, third); in the returned tree every instance occurs at
\* exactly one position (no sharing, no cycle).
C23_BottomUpNoSharing ==
    /\ [](OneBehaviourEach /\ NoSharing)
    /\ [][\A i \in DOMAIN heap : Built(i) => heap'[i] = heap[i]]_vars

\* a returned tree of five positions: '( a + b ) * c'
C23_Witness ==
    /\ outcome.status = "returned"
    /\ program = P(<<"(", "a", "+", "b", ")", "*", "c">>)
    /\ Subtree(outcome.value, Len(heap)) = <<6, 3, 2, 4, 7>>
    /\ \A i \in {2, 3, 4, 6, 7} : Built(i)


(***************************************************************************)
(* C24: a returned tree and the rest of the input                          *)
(***************************************************************************)
\* instance i is a node of the tree parse() returned
InTree(i) ==
    \E occ \in {Subtree(outcome.value, Len(heap))} :
        \E a \in DOMAIN occ : occ[a] = i

\* C24: whenever parse(program) returns a tree the whole input has been
\* consumed: the current token is the end marker, and every token before it
\* is a node of the tree or was dispatched or matched as a delimiter or
\* keyword; an input with trailing tokens is never accepted.
C24_WholeInputConsumed ==
    outcome.status = "returned" =>
        /\ heap[token].id = "(end)"
        /\ token = Len(program) + 1
        /\ \A i \in 1..(token - 1) : InTree(i) \/ Dispatched(i)

\* What parse() does ensure: expression(0) returns at the first token of
\* binding power 0, the end marker or not, and requests nothing after it.
C24_ReturnsAtFirstWeakToken ==
    outcome.status = "returned" =>
        /\ Desc(heap, token).lbp = 0
        /\ token = Len(heap)
        /\ \A i \in 1..(token - 1) : InTree(i) \/ Dispatched(i)

\* parse('1 )') returns the tree 1: the current token is ')', the end marker
\* has not been requested
C24_TrailingCloserWitness ==
    /\ outcome.status = "returned"
    /\ program = P(<<"1", ")">>)
    /\ outcome.value = 1 /\ heap[1].id = "(literal)" /\ heap[1].first = None
    /\ heap[token].id = ")" /\ Len(heap) = 2

\* parse('1 else 1') and parse('1 1') return the tree 1 as well
C24_TrailingElseWitness ==
    /\ outcome.status = "returned"
    /\ program = P(<<"1", "else", "1">>)
    /\ outcome.value = 1 /\ heap[token].id = "else" /\ Len(heap) = 2

C24_TrailingLiteralWitness ==
    /\ outcome.status = "returned"
    /\ program = P(<<"1", "1">>)
    /\ outcome.value = 1 /\ token = 2 /\ Len(heap) = 2


(***************************************************************************)
(* C25: a ParseError and var_table (rd-parser-ebnf.py)                     *)
(***************************************************************************)
\* C25: a call of calc(line) that raises ParseError leaves var_table as it
\* was before the call; a statement followed by an unexpected token assigns
\* nothing.
C25_ParseErrorLeavesVarTable ==
    (calcs.calls > 0 /\ calcs.ebnf.err = "ParseError") =>
        calcs.ebnf.var_table = calcs.before

\* What holds: a call that raised ParseError without having made an
\* assignment leaves var_table as it was.
C25_NoWriteNoChange ==
    (calcs.calls > 0 /\ calcs.ebnf.writes = {}) =>
        calcs.ebnf.var_table = calcs.before

\* 'set x = 1 )' on a new calculator: ParseError, and x is 1
C25_TrailingTokenWitness ==
    /\ calcs.calls = 1
    /\ calcs.line = <<"set", "x", "=", "1", ")">>
    /\ calcs.ebnf.err = "ParseError"
    /\ calcs.before = CalcParser.var_table
    /\ calcs.ebnf.var_table = [n \in {"x"} |-> PyInt(1)]

\* a ParseError before any assignment: 'set x =' leaves the table alone
C25_EarlyErrorWitness ==
    /\ calcs.calls = 2
    /\ calcs.line = <<"set", "x", "=">>
    /\ calcs.ebnf.err = "ParseError"
    /\ calcs.before = [n \in {"x"} |-> PyInt(1)]
    /\ calcs.ebnf.var_table = calcs.before


(***************************************************************************)
(* C26: parse(p) depends on p and the registry only                        *)
(***************************************************************************)
\* the tree below instance i with the identities of the instances left out:
\* id, value, the kind of each child slot and the trees in them
RECURSIVE Shape(_, _)
Shape(i, fuel) ==
    [id |-> heap[i].id, value |-> heap[i].value,
     slots |-> <<heap[i].first.k, heap[i].second.k, heap[i].third.k>>,
     kids |-> IF fuel = 0 THEN <<>>
              ELSE [k \in DOMAIN Children(i) |-> Shape(Children(i)[k], fuel - 1)]]

\* what the latest parse() gave: the tree it returned or the error it raised
Result ==
    [status |-> outcome.status, exc |-> outcome.exc,
     tree |-> IF outcome.status = "returned"
              THEN <<Shape(outcome.value, Len(heap))>> ELSE <<>>]


ShapeLeaf(id, value) ==
    [id |-> id, value |-> value, slots |-> <<"none", "none", "none">>, kids |-> <<>>]

GaveTree(tree) ==
    [status |-> "returned", exc |-> NoExc, tree |-> <<tree>>]

GaveError(type, msg, arg, where) ==
    [status |-> "raised", exc |-> Exc(type, msg, arg, where), tree |-> <<>>]

\* what parse(p) gives as the first call of a fresh interpreter, for each
\* program of SeqPrograms
FirstResult(p) ==
    LET s == [i \in DOMAIN p |-> p[i].text] IN
    CASE s = <<"1", "+", "a">> ->
           GaveTree([id |-> "+", value |-> "", slots |-> <<"node", "node", "none">>,
                     kids |-> <<ShapeLeaf("(literal)", "1"), ShapeLeaf("(name)", "a")>>])
      [] s = <<"a">> -> GaveTree(ShapeLeaf("(name)", "a"))
      [] s = <<"(", "a", ")">> -> GaveTree(ShapeLeaf("(name)", "a"))
      [] s = <<"1", ")">> -> GaveTree(ShapeLeaf("(literal)", "1"))
      [] s = <<"(", "a", ",", ")">> ->
           GaveTree([id |-> "(", value |-> "", slots |-> <<"list", "none", "none">>,
                     kids |-> <<ShapeLeaf("(name)", "a")>>])
      [] s = <<"-", "a", "**", "1">> ->
           GaveTree([id |-> "-", value |-> "", slots |-> <<"node", "none", "none">>,
                     kids |-> <<[id |-> "**", value |-> "",
                                 slots |-> <<"node", "node", "none">>,
                                 kids |-> <<ShapeLeaf("(name)", "a"), ShapeLeaf("(literal)", "1")>>]>>])
      [] s = <<"(", "a">> ->
           GaveError("TokenError", "EOF in multi-line statement", "", "generate_tokens")
      [] s = <<"1", "@", "2">> -> GaveError("SyntaxError", "Unknown operator", "(operator)", "tokenize")
      [] s = <<"@">> -> GaveError("SyntaxError", "Unknown operator", "(operator)", "tokenize")
      [] s = <<>> -> GaveError("StopIteration", "", "", "next")
      [] s = <<"*", "a">> -> GaveError("SyntaxError", "Syntax error", "*", "nud")

Parses == Cardinality({k \in DOMAIN log : log[k].ev = "parse"})

\* C26: whatever parse() calls came before, on whatever programs and however
\* they ended, a finished parse(p) has returned the tree, or raised the error,
\* that parse(p) gives as the first call.
C26_ResultDependsOnlyOnProgram ==
    Done => Result = FirstResult(program)

\* the third parse() call returned (+ 1 a) after a call on "( a" that the
\* tokenizer aborted with the opening parenthesis and the name already read
C26_Witness ==
    /\ Parses = 3
    /\ outcome.status = "returned"
    /\ [i \in DOMAIN program |-> program[i].text] = <<"1", "+", "a">>
    /\ heap[outcome.value].id = "+"
    /\ heap[1].id = "(" /\ heap[2].id = "(name)"
    /\ \A i \in DOMAIN heap : heap[i].id \notin {")", ","}

\* a parse() call that raised at once (unknown operator) follows a call that
\* returned, and the call after both raises the missing-prefix error of "* a"
C26_RaisedWitness ==
    /\ Parses = 3
    /\ outcome.status = "raised"
    /\ outcome.exc = MissingPrefixError("*")
    /\ Len(heap) > 2

====
